---------------------------- MODULE Spec2Model ----------------------------
(***************************************************************************)
(* Model of the MarsPro device-control layer:                              *)
(*   - MarsProDataUpdateCoordinator (custom_components/marspro/            *)
(*     coordinator.py): the polling refresh and command-then-refresh.      *)
(*   - MarsProBLEClient (src/marspro/ble_client_standalone.py): the BLE    *)
(*     connection life cycle and the guarded read / write operations.      *)
(*   - MarsProAPI (src/marspro/api.py): the cloud calls with their login,  *)
(*     and the local-mode calls of concurrent callers on the BLE link.     *)
(* Python dicts are functions over a set of string keys; every value is a  *)
(* string so that any two values can be compared.                          *)
(***************************************************************************)
EXTENDS Integers, Sequences, FiniteSets, TLC

VARIABLES
    devices,        \* coordinator.devices: the Registry, id -> record (dict)
    pc,             \* coordinator: where the running operation stands
    idx,            \* coordinator: position of the for loop in the listing
    updated,        \* coordinator: updated_devices of the running refresh
    prevDevices,    \* history: the Registry when the last coordinator operation began
    lastOp,         \* history: inputs and outcome of the last coordinator operation
    client,         \* MarsProBLEClient.client: None or a BleakClient object
    connected,      \* MarsProBLEClient._connected
    characteristics,\* MarsProBLEClient._characteristics (the uuids cached)
    deviceInfo,     \* MarsProBLEClient.device_info: None or "set"
    linkOpen,       \* environment: the BleakClient objects whose physical link is open
    nextClient,     \* environment: how many BleakClient objects were constructed
    bleOp,          \* history: the last MarsProBLEClient call, its I/O and its result
    session,        \* MarsProAPI (cloud mode): self.session, None or a ClientSession
    auth_token,     \* MarsProAPI (cloud mode): self.auth_token, None or a token
    cloudOp,        \* history: the last cloud-mode MarsProAPI call and its HTTP requests
    ble_client,     \* MarsProAPI (local mode): self.ble_client, None or a BleakClient
    isConnected,    \* environment: is_connected of every BleakClient the API made
    nextBleak,      \* environment: how many BleakClient objects the API constructed
    task,           \* MarsProAPI (local mode): the coroutine each caller is running
    use_cloud,      \* stack: MarsProAPI.use_cloud of the config entry
    linkUp,         \* stack: self.ble_client is set and is_connected
    dev,            \* stack, environment: the device's power and brightness bytes
    stackOp,        \* history: the last coordinator operation run through the stack
    held,           \* reader: the record a Registry reader was handed
    readerOp,       \* history: the last step of the reader or refresh
    data_callback,  \* MarsProBLEClient._data_callback: None or the callback
    subscribed,     \* environment: the BleakClient objects start_notify succeeded on
    arrived,        \* history: the notifications the link delivered, in order
    pending,        \* event loop: the _notification_handler tasks not yet run
    delivered,      \* history: the calls the callback received, in order
    discovered_devices, \* MarsProDeviceScanner.discovered_devices (ble_client_standalone.py)
    discovered_by_address, \* MarsProDeviceScanner._discovered_devices (ble_client.py)
    scanOp,         \* history: the last scan of a MarsProDeviceScanner
    entries,        \* hass: the data of the config entries created, in order
    loaded,         \* hass.data[DOMAIN]: the entries whose coordinator is stored
    flowOp          \* history: the last step of the config flow or entry setup

coordVars == <<devices, pc, idx, updated, prevDevices, lastOp>>
bleVars == <<client, connected, characteristics, deviceInfo, linkOpen, nextClient, bleOp>>
cloudVars == <<session, auth_token, cloudOp>>
apiBleVars == <<ble_client, isConnected, nextBleak, task>>
stackVars == <<use_cloud, linkUp, dev, stackOp>>
readerVars == <<held, readerOp>>
notifyVars == <<data_callback, subscribed, arrived, pending, delivered>>
scanVars == <<discovered_devices, discovered_by_address, scanOp>>
flowVars == <<entries, loaded, flowOp>>
sideVars == <<notifyVars, scanVars, flowVars>>
vars == <<devices, pc, idx, updated, prevDevices, lastOp, client, connected,
          characteristics, deviceInfo, linkOpen, nextClient, bleOp,
          session, auth_token, cloudOp, ble_client, isConnected, nextBleak, task,
          use_cloud, linkUp, dev, stackOp, held, readerOp,
          data_callback, subscribed, arrived, pending, delivered,
          discovered_devices, discovered_by_address, scanOp,
          entries, loaded, flowOp>>

None == "None"

----------------------------------------------------------------------------
(* Bounds of the model *)

\* longest device list get_devices returns
MaxList == 2
\* BleakClient objects one MarsProAPI constructs (_connect_ble calls)
MaxBleak == 3
\* longest status frame the device answers a read with
MaxFrame == 3
\* BleakClient objects one MarsProBLEClient constructs (connect() calls)
MaxClients == 3

----------------------------------------------------------------------------
(* Python dict helpers *)

EmptyDict == [k \in {} |-> None]

\* dict.get(key): the value, or None when the key is absent
Get(d, k) == IF k \in DOMAIN d THEN d[k] ELSE None

\* dict.update(other): other's keys win
Update(d, s) == [k \in (DOMAIN d) \cup (DOMAIN s) |->
                    IF k \in DOMAIN s THEN s[k] ELSE d[k]]

\* dict[key] = value
Store(m, k, v) == [x \in (DOMAIN m) \cup {k} |-> IF x = k THEN v ELSE m[x]]

\* Python truthiness of a device id: None and "" are falsy
Truthy(v) == v # None /\ v # ""

----------------------------------------------------------------------------
(* Inputs of the coordinator: what the transport (MarsProAPI) hands back *)

Ids == {"A", "B"}
Names == {"n1", "n2"}
Temps == {"25.5", "30.0"}

\* one entry of the list get_devices returns; the id may be empty (falsy)
ListEntries == {[id |-> i, name |-> n] : i \in Ids \cup {""}, n \in Names}

\* the dict get_device_status returns: a reading, and one payload that carries
\* an "id" field of its own
StatusDicts == {[temperature |-> t] : t \in Temps}
                 \cup {[temperature |-> "25.5", id |-> "B"]}

\* the exceptions get_device_status raises
ErrorKinds == {"ConnectionError", "ValueError"}

\* the outcome of one get_device_status call: it raised, or it returned a dict
Outcomes == {[ok |-> FALSE, err |-> e, status |-> EmptyDict] : e \in ErrorKinds}
              \cup {[ok |-> TRUE, err |-> "", status |-> s] : s \in StatusDicts}
\* an entry without id gets no status call at all
NoCall == [ok |-> FALSE, err |-> "", status |-> EmptyDict]

Listings == UNION {[1..n -> ListEntries] : n \in 0..MaxList}

NoListing == << >>
EmptyRegistry == [i \in {} |-> EmptyDict]

----------------------------------------------------------------------------
(* MarsProDataUpdateCoordinator.  Every await of _async_update_data and of     *)
(* send_command is one step; pc says which await comes next:                   *)
(*   "idle"  no operation is running                                           *)
(*   "command"  send_command awaits api.send_command()                         *)
(*   "list"  a refresh is about to await api.get_devices()                     *)
(*   "loop"  the for loop stands before listing[idx]                           *)

\* the loop body without the branch that keeps the existing record
UpdateOneOverwrite(old, upd, device, outcome) ==
    LET device_id == Get(device, "id") IN
    IF ~Truthy(device_id) THEN upd
    ELSE IF outcome.ok THEN Store(upd, device_id, Update(device, outcome.status))
    ELSE Store(upd, device_id, device)

\* the loop body leaving a device out when its status read failed
UpdateOneDrop(old, upd, device, outcome) ==
    LET device_id == Get(device, "id") IN
    IF ~Truthy(device_id) THEN upd
    ELSE IF outcome.ok THEN Store(upd, device_id, Update(device, outcome.status))
    ELSE upd

\* the loop body merging the new listing entry into the record it keeps
UpdateOneMergeOld(old, upd, device, outcome) ==
    LET device_id == Get(device, "id") IN
    IF ~Truthy(device_id) THEN upd
    ELSE IF outcome.ok THEN Store(upd, device_id, Update(device, outcome.status))
    ELSE IF device_id \in DOMAIN old
         THEN Store(upd, device_id, Update(old[device_id], device))
    ELSE Store(upd, device_id, device)

\* the body of the for loop of _async_update_data for one listed device
UpdateOne(old, upd, device, outcome) ==
    LET device_id == Get(device, "id") IN
    IF ~Truthy(device_id) THEN upd
    ELSE IF outcome.ok THEN Store(upd, device_id, Update(device, outcome.status))
    ELSE IF device_id \in DOMAIN old THEN Store(upd, device_id, old[device_id])
    ELSE Store(upd, device_id, device)

\* self.devices when get_devices raised: control leaves the try block before
\* the assignment of line 54
ListFailedClear(old) == EmptyRegistry

ListFailed(old) == old

\* what _async_update_data does: returns the data or raises UpdateFailed
UpdateResult(listOk) == IF listOk THEN "ok" ELSE "UpdateFailed"

\* the refresh send_command awaits: DataUpdateCoordinator.async_request_refresh
\* runs the update through the host's async_refresh, which records and logs a
\* failed update and raises nothing to the caller
RequestRefreshDirect(updateResult) ==
    IF updateResult = "UpdateFailed" THEN "raised" ELSE "done"

RequestRefresh(updateResult) == "done"

\* send_command's try / except: the result is returned when neither the
\* transport call nor the awaited refresh raised; any exception is re-raised
CommandResult(cmdOk, refreshed) ==
    IF cmdOk /\ refreshed = "done" THEN "success" ELSE "raised"

\* what the operation of the given kind hands its caller once its refresh ended
OpResult(kind, updateResult) ==
    IF kind = "command" THEN CommandResult(TRUE, RequestRefresh(updateResult))
    ELSE updateResult

\* one call on the transport, as the history records it
Call(name, arg) == [call |-> name, arg |-> arg]

NewOp(kind, calls) ==
    [kind |-> kind, cmdOk |-> FALSE, listOk |-> FALSE, listing |-> NoListing,
     outcomes |-> NoListing, refresh |-> "none", result |-> "none",
     calls |-> calls]

\* result = await self.api.send_command(...): send_command is suspended until
\* the transport call has returned or raised
PcAtCommandStartNoAwait == "list"

PcAtCommandStart == "command"

\* after the transport call: the refresh is requested when it returned; when
\* it raised, control goes to the except branch and nothing is refreshed
PcAfterCommandAlways(cmdOk) == "list"

PcAfterCommand(cmdOk) == IF cmdOk THEN "list" ELSE "idle"

\* the inner except of the for loop catches every Exception of the status
\* call, so none of them reaches the outer except
StatusErrorPropagatesUncaught(device, outcome) ==
    /\ Truthy(Get(device, "id"))
    /\ ~outcome.ok
    /\ outcome.err # "ConnectionError"

StatusErrorPropagates(device, outcome) == FALSE

\* the status is read for every listed device, with an id or without
StatusCalledAlways(device) == TRUE

\* if device_id: the status is read only for a device whose id is truthy
StatusCalled(device) == Truthy(Get(device, "id"))

\* the host's poll: DataUpdateCoordinator calls _async_update_data
Poll ==
    /\ pc = "idle"
    /\ pc' = "list"
    /\ prevDevices' = devices
    /\ lastOp' = NewOp("refresh", << >>)
    /\ UNCHANGED <<devices, idx, updated>>
    /\ UNCHANGED <<bleVars, cloudVars, apiBleVars, stackVars, readerVars, sideVars>>

\* coordinator.send_command: the call of api.send_command
SendCommand ==
    /\ pc = "idle"
    /\ pc' = PcAtCommandStart
    /\ lastOp' = NewOp("command", <<Call("send_command", "")>>)
    /\ prevDevices' = devices
    /\ UNCHANGED <<devices, idx, updated>>
    /\ UNCHANGED <<bleVars, cloudVars, apiBleVars, stackVars, readerVars, sideVars>>

\* api.send_command returns or raises: when it raised the exception is
\* re-raised, else the refresh is requested
CommandReturn ==
    /\ pc = "command"
    /\ \E cmdOk \in BOOLEAN :
        /\ pc' = PcAfterCommand(cmdOk)
        /\ lastOp' = [lastOp EXCEPT
                        !.cmdOk = cmdOk,
                        !.calls = Append(lastOp.calls,
                                    Call(IF cmdOk THEN "send_command:returned"
                                         ELSE "send_command:raised", "")),
                        !.result = IF cmdOk THEN "none"
                                   ELSE CommandResult(FALSE, "done")]
    /\ UNCHANGED <<devices, idx, updated, prevDevices>>
    /\ UNCHANGED <<bleVars, cloudVars, apiBleVars, stackVars, readerVars, sideVars>>

\* devices = await self.api.get_devices(), and the outer except when it raises
GetDevices ==
    /\ pc = "list"
    /\ \E listOk \in BOOLEAN :
       \E listing \in (IF listOk THEN Listings ELSE {NoListing}) :
        /\ pc' = IF listOk THEN "loop" ELSE "idle"
        /\ devices' = IF listOk THEN devices ELSE ListFailed(devices)
        /\ lastOp' = [lastOp EXCEPT
                        !.listOk = listOk,
                        !.listing = listing,
                        !.calls = Append(lastOp.calls, Call("get_devices", "")),
                        !.refresh = IF listOk THEN "running" ELSE UpdateResult(FALSE),
                        !.result = IF listOk THEN "none"
                                   ELSE OpResult(lastOp.kind, UpdateResult(FALSE))]
    /\ idx' = 1
    /\ updated' = EmptyRegistry
    /\ UNCHANGED prevDevices
    /\ UNCHANGED <<bleVars, cloudVars, apiBleVars, stackVars, readerVars, sideVars>>

\* one iteration of the for loop: the status call of listing[idx] (none for
\* an entry without id) and the store into updated_devices
ReadStatus ==
    /\ pc = "loop"
    /\ idx <= Len(lastOp.listing)
    /\ LET device == lastOp.listing[idx]
           called == StatusCalled(device) IN
       \E outcome \in (IF called THEN Outcomes ELSE {NoCall}) :
       LET calls == IF called
                    THEN Append(lastOp.calls,
                                Call("get_device_status", Get(device, "id")))
                    ELSE lastOp.calls IN
        IF StatusErrorPropagates(device, outcome)
        THEN /\ pc' = "idle"
             /\ idx' = 1
             /\ updated' = EmptyRegistry
             /\ lastOp' = [lastOp EXCEPT
                             !.outcomes = Append(lastOp.outcomes, outcome),
                             !.calls = calls,
                             !.refresh = UpdateResult(FALSE),
                             !.result = OpResult(lastOp.kind, UpdateResult(FALSE))]
        ELSE /\ pc' = pc
             /\ idx' = idx + 1
             /\ updated' = UpdateOne(devices, updated, device, outcome)
             /\ lastOp' = [lastOp EXCEPT
                             !.outcomes = Append(lastOp.outcomes, outcome),
                             !.calls = calls]
    /\ UNCHANGED <<devices, prevDevices>>
    /\ UNCHANGED <<bleVars, cloudVars, apiBleVars, stackVars, readerVars, sideVars>>

\* after the loop: self.devices = updated_devices and the return
FinishRefresh ==
    /\ pc = "loop"
    /\ idx > Len(lastOp.listing)
    /\ devices' = updated
    /\ pc' = "idle"
    /\ lastOp' = [lastOp EXCEPT
                    !.refresh = UpdateResult(TRUE),
                    !.result = OpResult(lastOp.kind, UpdateResult(TRUE))]
    /\ idx' = 1
    /\ updated' = EmptyRegistry
    /\ UNCHANGED prevDevices
    /\ UNCHANGED <<bleVars, cloudVars, apiBleVars, stackVars, readerVars, sideVars>>

----------------------------------------------------------------------------
(* MarsProBLEClient (ble_client_standalone.py).  A BleakClient object is a    *)
(* number 1, 2, ...; the environment decides whether each call on the link    *)
(* succeeds and may drop an open link at any time.                            *)

\* self.client = None
NoClient == 0

COMMAND_CHAR_UUID == "ffe1"
DATA_CHAR_UUID == "ffe2"
CONFIG_CHAR_UUID == "ffe3"
STATUS_CHAR_UUID == "ffe4"
CharUuids == {COMMAND_CHAR_UUID, DATA_CHAR_UUID, CONFIG_CHAR_UUID, STATUS_CHAR_UUID}

CMD_SET_LIGHT == 16
CMD_SET_DRIP == 64

CMD_SET_TEMPERATURE == 32
CMD_SET_HUMIDITY == 33
CMD_SET_FAN == 48

\* a key that the data dict of a command does not hold
Missing == -1

\* data.get(key, 0)
DataGet(v) == IF v = Missing THEN 0 ELSE v

\* the commands sent in the model: send_command(command_type, data), data
\* holding any of the keys intensity, temperature, humidity and fan_speed; an
\* intensity in and out of the range of one unsigned byte
Intensities == {50, 300}
Opcodes == {CMD_SET_LIGHT, CMD_SET_TEMPERATURE, CMD_SET_HUMIDITY, CMD_SET_FAN,
            CMD_SET_DRIP}
FanSpeeds == {1, 3}

\* the command record of a call that is not send_command
NoCommand == [type |-> 0, intensity |-> Missing, temperature |-> Missing,
              humidity |-> Missing, fan_speed |-> Missing]

\* a command of the given type with an empty data dict
Bare(type) == [NoCommand EXCEPT !.type = type]

Commands ==
    {[Bare(CMD_SET_LIGHT) EXCEPT !.intensity = i] : i \in Intensities \cup {Missing}}
      \cup {[Bare(CMD_SET_TEMPERATURE) EXCEPT
                !.temperature = t, !.humidity = h, !.fan_speed = f] :
              t \in {Missing, 25}, h \in {Missing, 60}, f \in {Missing, 3}}
      \cup {[Bare(CMD_SET_HUMIDITY) EXCEPT !.humidity = h] : h \in {Missing, 60}}
      \cup {[Bare(CMD_SET_FAN) EXCEPT !.fan_speed = f] : f \in FanSpeeds \cup {Missing}}
      \cup {Bare(CMD_SET_DRIP)}

\* _build_command_packet raises (struct.error) when struct.pack('B', intensity)
\* is handed a value outside 0..255
BuildRaises(cmd) ==
    cmd.type = CMD_SET_LIGHT /\ ~(DataGet(cmd.intensity) \in 0..255)

RECURSIVE Log2Floor(_)
\* the exponent of the highest set bit of n > 0
Log2Floor(n) == IF n < 2 THEN 0 ELSE 1 + Log2Floor(n \div 2)

\* 2^e
Pow2(e) == 2 ^ e

\* the IEEE 754 binary32 bit pattern of a whole number 0 <= n < 2^24
Float32Bits(n) ==
    IF n = 0 THEN 0
    ELSE LET e == Log2Floor(n) IN
         (e + 127) * Pow2(23) + (n - Pow2(e)) * Pow2(23 - e)

\* struct.pack('f', n): the four bytes of the binary32 value, lowest first
\* (native byte order of a little-endian host)
PackFloat(n) ==
    LET bits == Float32Bits(n) IN
    <<bits % 256, (bits \div 256) % 256, (bits \div 65536) % 256,
      (bits \div 16777216) % 256>>

\* struct.pack('H', intensity): two bytes instead of one
PackIntensityWide(cmd) ==
    <<cmd.type, DataGet(cmd.intensity) % 256, DataGet(cmd.intensity) \div 256>>

\* _build_command_packet with the intensity packed as 'H'
BuildCommandPacketWide(cmd) ==
    IF cmd.type = CMD_SET_LIGHT THEN PackIntensityWide(cmd)
    ELSE IF cmd.type = CMD_SET_TEMPERATURE
    THEN <<cmd.type>> \o PackFloat(DataGet(cmd.temperature))
    ELSE IF cmd.type = CMD_SET_HUMIDITY
    THEN <<cmd.type>> \o PackFloat(DataGet(cmd.humidity))
    ELSE <<cmd.type>>

\* _build_command_packet: the bytes of the packet (when it does not raise)
BuildCommandPacket(cmd) ==
    IF cmd.type = CMD_SET_LIGHT THEN <<cmd.type, DataGet(cmd.intensity)>>
    ELSE IF cmd.type = CMD_SET_TEMPERATURE
    THEN <<cmd.type>> \o PackFloat(DataGet(cmd.temperature))
    ELSE IF cmd.type = CMD_SET_HUMIDITY
    THEN <<cmd.type>> \o PackFloat(DataGet(cmd.humidity))
    ELSE <<cmd.type>>

\* the state of the client object a call starts in
ClientState == [client |-> client, connected |-> connected,
                characteristics |-> characteristics, deviceInfo |-> deviceInfo]

BleOp(op, io, result) ==
    [op |-> op, io |-> io, result |-> result, pre |-> ClientState,
     cmd |-> NoCommand, packet |-> << >>, found |-> {}]

\* the record of a send_command call that built its packet
BleCommandOp(cmd, io, result) ==
    [BleOp("send_command", io, result) EXCEPT
        !.cmd = cmd, !.packet = BuildCommandPacket(cmd)]

\* the guard that opens read_device_info, read_sensor_data and send_command
NotReadyNoClientOnly(conn, cl) == cl = NoClient

NotReady(conn, cl) == ~conn \/ cl = NoClient

\* connect(): True is returned, and _connected set, only on the path through
\* client.connect() and client.get_services() without an exception
ConnectSucceedsEarly(openOk, discOk) == openOk

ConnectSucceeds(openOk, discOk) == openOk /\ discOk

\* the calls connect() makes on the link, in order
ConnectIo(openOk, discOk) ==
    IF ~openOk THEN <<"connect:fail">>
    ELSE <<"connect:ok", IF discOk THEN "get_services:ok" ELSE "get_services:fail">>

\* MarsProBLEClient.connect
Connect ==
    /\ nextClient < MaxClients
    /\ \E openOk \in BOOLEAN :
       \E discOk \in (IF openOk THEN BOOLEAN ELSE {FALSE}) :
       \E found \in (IF discOk THEN SUBSET CharUuids ELSE {{}}) :
        LET new == nextClient + 1
            ok == ConnectSucceeds(openOk, discOk) IN
        /\ nextClient' = new
        /\ client' = new
        /\ linkOpen' = IF openOk THEN linkOpen \cup {new} ELSE linkOpen
        /\ characteristics' = characteristics \cup found
        /\ connected' = IF ok THEN TRUE ELSE connected
        /\ bleOp' = [BleOp("connect", ConnectIo(openOk, discOk),
                           IF ok THEN "True" ELSE "False") EXCEPT !.found = found]
    /\ UNCHANGED deviceInfo
    /\ UNCHANGED <<coordVars, cloudVars, apiBleVars, stackVars, readerVars, sideVars>>

\* MarsProBLEClient.disconnect: client.disconnect() may raise, and then the
\* assignment after it is not reached
Disconnect ==
    /\ IF client # NoClient /\ connected
       THEN \E discOk \in BOOLEAN :
            \E closes \in (IF discOk THEN {TRUE} ELSE BOOLEAN) :
                /\ linkOpen' = IF closes THEN linkOpen \ {client} ELSE linkOpen
                /\ connected' = IF discOk THEN FALSE ELSE connected
                /\ bleOp' = BleOp("disconnect",
                                  <<IF discOk THEN "disconnect:ok" ELSE "disconnect:fail">>,
                                  IF discOk THEN "returned" ELSE "raised")
       ELSE /\ bleOp' = BleOp("disconnect", << >>, "returned")
            /\ UNCHANGED <<linkOpen, connected>>
    /\ UNCHANGED <<client, characteristics, deviceInfo, nextClient>>
    /\ UNCHANGED <<coordVars, cloudVars, apiBleVars, stackVars, readerVars, sideVars>>

\* a read or write on the link of the current client can succeed only while
\* that link is open
IoOutcomes == IF client \in linkOpen THEN BOOLEAN ELSE {FALSE}

\* MarsProBLEClient.read_device_info
ReadDeviceInfo ==
    /\ IF NotReady(connected, client)
       THEN /\ bleOp' = BleOp("read_device_info", << >>, "None")
            /\ UNCHANGED deviceInfo
       ELSE IF STATUS_CHAR_UUID \in characteristics
       THEN \E ok \in IoOutcomes :
                /\ deviceInfo' = IF ok THEN "set" ELSE deviceInfo
                /\ bleOp' = BleOp("read_device_info",
                                  <<IF ok THEN "read:ok" ELSE "read:fail">>,
                                  IF ok THEN "device" ELSE "None")
       ELSE /\ deviceInfo' = "set"
            /\ bleOp' = BleOp("read_device_info", << >>, "device")
    /\ UNCHANGED <<client, connected, characteristics, linkOpen, nextClient>>
    /\ UNCHANGED <<coordVars, cloudVars, apiBleVars, stackVars, readerVars, sideVars>>

\* MarsProBLEClient.read_sensor_data
ReadSensorData ==
    /\ IF NotReady(connected, client)
       THEN bleOp' = BleOp("read_sensor_data", << >>, "None")
       ELSE IF DATA_CHAR_UUID \in characteristics
       THEN \E ok \in IoOutcomes :
                bleOp' = BleOp("read_sensor_data",
                               <<IF ok THEN "read:ok" ELSE "read:fail">>,
                               IF ok THEN "data" ELSE "None")
       ELSE bleOp' = BleOp("read_sensor_data", << >>, "data")
    /\ UNCHANGED <<client, connected, characteristics, deviceInfo, linkOpen, nextClient>>
    /\ UNCHANGED <<coordVars, cloudVars, apiBleVars, stackVars, readerVars, sideVars>>

\* send_command: True whatever became of the write
WriteResultOptimistic(ok) == "True"

\* send_command: return True after the awaited write, False from the except
\* branch
WriteResult(ok) == IF ok THEN "True" ELSE "False"

\* MarsProBLEClient.send_command
BleSendCommand ==
    /\ \E cmd \in Commands :
        IF NotReady(connected, client)
        THEN bleOp' = [BleOp("send_command", << >>, "False") EXCEPT !.cmd = cmd]
        ELSE IF BuildRaises(cmd)
        THEN bleOp' = [BleOp("send_command", << >>, "False") EXCEPT !.cmd = cmd]
        ELSE IF COMMAND_CHAR_UUID \in characteristics
        THEN \E ok \in IoOutcomes :
                bleOp' = BleCommandOp(cmd,
                                      <<IF ok THEN "write:ok" ELSE "write:fail">>,
                                      WriteResult(ok))
        ELSE bleOp' = BleCommandOp(cmd, << >>, "False")
    /\ UNCHANGED <<client, connected, characteristics, deviceInfo, linkOpen, nextClient>>
    /\ UNCHANGED <<coordVars, cloudVars, apiBleVars, stackVars, readerVars, sideVars>>

\* the environment: the device goes out of range and an open link drops
LinkDrop ==
    /\ \E c \in linkOpen : linkOpen' = linkOpen \ {c}
    /\ UNCHANGED <<client, connected, characteristics, deviceInfo, nextClient, bleOp>>
    /\ UNCHANGED <<coordVars, cloudVars, apiBleVars, stackVars, readerVars, sideVars>>

----------------------------------------------------------------------------
(* MarsProAPI with use_cloud = True (api.py).  One caller issues the calls   *)
(* one after the other; the environment picks the response of every HTTP     *)
(* request.  An HTTP status is a string, "ClientError" standing for a        *)
(* request that raised instead of answering.                                 *)

\* tokens the login endpoint hands out
Tokens == {"t1", "t2"}

\* responses of POST auth/login: a status and the "token" of the body
LoginOutcomes ==
    {[status |-> "200", token |-> t] : t \in Tokens \cup {None}}
      \cup {[status |-> st, token |-> None] : st \in {"401", "ClientError"}}

\* responses of the devices, status and control endpoints
CallOutcomes == {"200", "401", "500", "ClientError"}

\* command names callers send (const.py); _build_ble_command knows three
ApiCommands == {"power_on", "power_off", "set_brightness", "set_color"}

\* one HTTP request: its endpoint, the bearer token it carried, its response
Request(endpoint, token, status) ==
    [endpoint |-> endpoint, token |-> token, status |-> status]

\* what the response status of a request makes the call raise ("" = nothing)
StatusError(status) ==
    IF status = "200" THEN ""
    ELSE IF status = "ClientError" THEN "ClientError"
    ELSE "ValueError"

\* _authenticate without the check of the token in the response
AuthenticateUnchecked(sess, tok, lo) ==
    IF ~Truthy(sess)
    THEN [err |-> "RuntimeError", auth_token |-> tok, requests |-> << >>]
    ELSE IF lo.status = "200"
    THEN [err |-> "", auth_token |-> lo.token,
          requests |-> <<Request("login", None, lo.status)>>]
    ELSE [err |-> StatusError(lo.status), auth_token |-> tok,
          requests |-> <<Request("login", None, lo.status)>>]

\* _authenticate: the exception raised, the token left in self.auth_token and
\* the requests made
Authenticate(sess, tok, lo) ==
    IF ~Truthy(sess)
    THEN [err |-> "RuntimeError", auth_token |-> tok, requests |-> << >>]
    ELSE IF lo.status = "200"
    THEN [err |-> IF Truthy(lo.token) THEN "" ELSE "ValueError",
          auth_token |-> lo.token,
          requests |-> <<Request("login", None, lo.status)>>]
    ELSE [err |-> StatusError(lo.status), auth_token |-> tok,
          requests |-> <<Request("login", None, lo.status)>>]

\* if not self.session or not self.auth_token
NeedsAuth(sess, tok) == ~Truthy(sess) \/ ~Truthy(tok)

\* the body shared by _get_devices_cloud, _get_device_status_cloud and
\* _send_command_cloud: authenticate if needed, then one request
CloudCall(sess, tok, endpoint, lo, co) ==
    LET auth == IF NeedsAuth(sess, tok) THEN Authenticate(sess, tok, lo)
                ELSE [err |-> "", auth_token |-> tok, requests |-> << >>]
    IN IF auth.err # "" THEN auth
       ELSE [err |-> StatusError(co), auth_token |-> auth.auth_token,
             requests |-> Append(auth.requests,
                                 Request(endpoint, auth.auth_token, co))]

\* the record of one cloud-mode call
CloudOp(kind, command, call, result) ==
    [kind |-> kind, command |-> command,
     first |-> cloudOp.kind = "init",
     sessionBefore |-> session, tokenBefore |-> auth_token,
     requests |-> call.requests, err |-> call.err, result |-> result]

\* test_connection -> _test_cloud_connection
TestCloudConnection ==
    \E lo \in LoginOutcomes :
        LET auth == Authenticate("session", auth_token, lo) IN
        /\ session' = "session"
        /\ auth_token' = auth.auth_token
        /\ cloudOp' = CloudOp("test_connection", "", auth,
                              IF auth.err = "" THEN "True" ELSE "False")
        /\ UNCHANGED <<coordVars, bleVars, apiBleVars, stackVars, readerVars, sideVars>>

\* the data calls: the endpoint each one requests
Endpoint(kind) ==
    CASE kind = "get_devices" -> "devices"
      [] kind = "get_device_status" -> "status"
      [] kind = "send_command" -> "control"

CloudDataCall(kind, command) ==
    \E lo \in LoginOutcomes, co \in CallOutcomes :
        LET call == CloudCall(session, auth_token, Endpoint(kind), lo, co) IN
        /\ auth_token' = call.auth_token
        /\ cloudOp' = CloudOp(kind, command, call,
                              IF call.err = "" THEN "returned" ELSE "raised")
        /\ UNCHANGED session
        /\ UNCHANGED <<coordVars, bleVars, apiBleVars, stackVars, readerVars, sideVars>>

\* get_devices -> _get_devices_cloud
GetDevicesCloud == CloudDataCall("get_devices", "")

\* get_device_status -> _get_device_status_cloud
GetDeviceStatusCloud == CloudDataCall("get_device_status", "")

\* send_command -> _send_command_cloud
SendCommandCloud == \E command \in ApiCommands : CloudDataCall("send_command", command)

\* disconnect, cloud mode: the session is closed and forgotten, the token kept
DisconnectCloud ==
    /\ session' = None
    /\ cloudOp' = CloudOp("disconnect", "",
                          [err |-> "", requests |-> << >>], "returned")
    /\ UNCHANGED auth_token
    /\ UNCHANGED <<coordVars, bleVars, apiBleVars, stackVars, readerVars, sideVars>>

CloudInit ==
    /\ session = None
    /\ auth_token = None
    /\ cloudOp = [kind |-> "init", command |-> "", first |-> FALSE,
                  sessionBefore |-> None, tokenBefore |-> None,
                  requests |-> << >>, err |-> "", result |-> "none"]

----------------------------------------------------------------------------
(* MarsProAPI with use_cloud = False (api.py).  Callers run concurrently as  *)
(* asyncio tasks on one MarsProAPI: a coroutine runs without interruption    *)
(* up to its next await on the BLE link, where another task may run.  pc of  *)
(* a task names the await it is suspended at:                                *)
(*   "idle"           not in a call (the record keeps the last call's result)*)
(*   "connecting"     await self.ble_client.connect()                        *)
(*   "io"             await read_gatt_char / write_gatt_char                 *)
(*   "disconnecting"  await self.ble_client.disconnect()                     *)
(* A BleakClient object is a number 1, 2, ...                                *)

\* self.ble_client = None
NoBleak == 0

\* the callers of one MarsProAPI: the coordinator's poll and a service call
Callers == {"poll", "service"}

\* the commands _build_ble_command encodes
KnownBleCommands == {"power_on", "power_off", "set_brightness"}

\* _build_ble_command raises ValueError("Unknown command")
BuildBleCommandRaises(command) == command \notin KnownBleCommands

\* pc values at which a request is outstanding on the link
InFlightPcs == {"connecting", "io", "disconnecting"}

\* a task whose call has ended with the given result
Finished(op, command, io, result) ==
    [op |-> op, command |-> command, pc |-> "idle", cl |-> NoBleak,
     io |-> io, result |-> result]

\* a task suspended at an await on BleakClient c
Awaiting(op, command, at, c, io) ==
    [op |-> op, command |-> command, pc |-> at, cl |-> c,
     io |-> io, result |-> "none"]

\* if not self.ble_client or not self.ble_client.is_connected
NeedsConnect == ble_client = NoBleak \/ ~isConnected[ble_client]

\* _connect_ble up to its await: a new BleakClient replaces self.ble_client
ConnectBle(t, op, command) ==
    /\ nextBleak < MaxBleak
    /\ nextBleak' = nextBleak + 1
    /\ ble_client' = nextBleak + 1
    /\ task' = [task EXCEPT ![t] =
                   Awaiting(op, command, "connecting", nextBleak + 1, <<"connect">>)]
    /\ UNCHANGED isConnected

\* the try block of _get_devices_ble, _get_device_status_ble and
\* _send_command_ble up to its await, on the object self.ble_client holds now
Operate(t, op, command, io) ==
    task' = [task EXCEPT ![t] =
        IF op = "send_command" /\ BuildBleCommandRaises(command)
        THEN Finished(op, command, io, "raised")
        ELSE IF ble_client = NoBleak
        THEN Finished(op, command, io, "raised")
        ELSE Awaiting(op, command, "io", ble_client,
                      Append(io, IF op = "send_command" THEN "write" ELSE "read"))]

\* entry of a data call: connect first when not connected
ApiDataCall(t, op, command) ==
    /\ task[t].pc = "idle"
    /\ IF NeedsConnect
       THEN ConnectBle(t, op, command)
       ELSE /\ Operate(t, op, command, << >>)
            /\ UNCHANGED <<ble_client, isConnected, nextBleak>>
    /\ UNCHANGED <<coordVars, bleVars, cloudVars, stackVars, readerVars, sideVars>>

\* get_devices -> _get_devices_ble
GetDevicesBle == \E t \in Callers : ApiDataCall(t, "get_devices", "")

\* get_device_status -> _get_device_status_ble
GetDeviceStatusBle == \E t \in Callers : ApiDataCall(t, "get_device_status", "")

\* send_command -> _send_command_ble
SendCommandBle ==
    \E t \in Callers, command \in ApiCommands : ApiDataCall(t, "send_command", command)

\* test_connection -> _test_ble_connection: always a new BleakClient
TestBleConnection ==
    \E t \in Callers :
        /\ task[t].pc = "idle"
        /\ ConnectBle(t, "test_connection", "")
        /\ UNCHANGED <<coordVars, bleVars, cloudVars, stackVars, readerVars, sideVars>>

\* await self.ble_client.connect() returns or raises
ConnectBleReturn ==
    \E t \in Callers, ok \in BOOLEAN :
        LET cur == task[t] IN
        /\ cur.pc = "connecting"
        /\ isConnected' = IF ok THEN [isConnected EXCEPT ![cur.cl] = TRUE]
                          ELSE isConnected
        /\ IF cur.op = "test_connection"
           THEN task' = [task EXCEPT ![t] =
                    Finished(cur.op, "", cur.io, IF ok THEN "True" ELSE "False")]
           ELSE IF ok THEN Operate(t, cur.op, cur.command, cur.io)
           ELSE task' = [task EXCEPT ![t] =
                    Finished(cur.op, cur.command, cur.io, "raised")]
        /\ UNCHANGED <<ble_client, nextBleak>>
        /\ UNCHANGED <<coordVars, bleVars, cloudVars, stackVars, readerVars, sideVars>>

\* await read_gatt_char / write_gatt_char returns or raises; on a BleakClient
\* that is not connected it raises
LinkIoReturn ==
    \E t \in Callers, ok \in BOOLEAN :
        LET cur == task[t] IN
        /\ cur.pc = "io"
        /\ ok => isConnected[cur.cl]
        /\ task' = [task EXCEPT ![t] =
                Finished(cur.op, cur.command, cur.io,
                         IF ok THEN "returned" ELSE "raised")]
        /\ UNCHANGED <<ble_client, isConnected, nextBleak>>
        /\ UNCHANGED <<coordVars, bleVars, cloudVars, stackVars, readerVars, sideVars>>

\* disconnect, local mode, up to its await
DisconnectBle ==
    \E t \in Callers :
        /\ task[t].pc = "idle"
        /\ task' = [task EXCEPT ![t] =
                IF ble_client # NoBleak /\ isConnected[ble_client]
                THEN Awaiting("disconnect", "", "disconnecting", ble_client,
                              <<"disconnect">>)
                ELSE Finished("disconnect", "", << >>, "returned")]
        /\ UNCHANGED <<ble_client, isConnected, nextBleak>>
        /\ UNCHANGED <<coordVars, bleVars, cloudVars, stackVars, readerVars, sideVars>>

\* await self.ble_client.disconnect() returns (then self.ble_client = None)
\* or raises
DisconnectBleReturn ==
    \E t \in Callers, ok \in BOOLEAN :
        LET cur == task[t] IN
        /\ cur.pc = "disconnecting"
        /\ isConnected' = IF ok THEN [isConnected EXCEPT ![cur.cl] = FALSE]
                          ELSE isConnected
        /\ ble_client' = IF ok THEN NoBleak ELSE ble_client
        /\ task' = [task EXCEPT ![t] =
                Finished("disconnect", "", cur.io,
                         IF ok THEN "returned" ELSE "raised")]
        /\ UNCHANGED nextBleak
        /\ UNCHANGED <<coordVars, bleVars, cloudVars, stackVars, readerVars, sideVars>>

\* the environment: the link of a connected BleakClient drops
ApiLinkDrop ==
    /\ \E c \in 1..MaxBleak :
          /\ isConnected[c]
          /\ isConnected' = [isConnected EXCEPT ![c] = FALSE]
    /\ UNCHANGED <<ble_client, nextBleak, task>>
    /\ UNCHANGED <<coordVars, bleVars, cloudVars, stackVars, readerVars, sideVars>>

ApiBleInit ==
    /\ ble_client = NoBleak
    /\ isConnected = [c \in 1..MaxBleak |-> FALSE]
    /\ nextBleak = 0
    /\ task = [t \in Callers |-> Finished("init", "", << >>, "none")]

----------------------------------------------------------------------------
(* The stack of one config entry: the coordinator calling MarsProAPI, in     *)
(* local mode against a device on the BLE link, in cloud mode against the    *)
(* server.  One caller; every coordinator operation is one step with all     *)
(* the transport calls it makes.  The device is the environment: it holds a  *)
(* power byte and a brightness byte, takes over the byte a command payload   *)
(* carries, and answers a read with a frame of any length up to MaxFrame.    *)

\* entry.data[CONF_BLE_MAC]
BleMac == "AA:BB"

\* brightness bytes the device may hold of its own
BrightnessBytes == {0, 100, 255}

\* the brightness keyword of send_command: absent, in range, above 100, and
\* above one byte
BrightnessArgs == {Missing, 50, 255, 300}

\* kwargs.get("brightness", 100)
BrightnessOf(b) == IF b = Missing THEN 100 ELSE b

\* _build_ble_command raises ValueError: an unknown command, or
\* bytes([0x02, brightness]) with a brightness outside 0..255
BuildBleRaises(command, b) ==
    \/ BuildBleCommandRaises(command)
    \/ command = "set_brightness" /\ BrightnessOf(b) \notin 0..255

\* _build_ble_command with the two power payloads exchanged
BuildBleCommandSwapped(command, b) ==
    CASE command = "power_on" -> <<1, 0>>
      [] command = "power_off" -> <<1, 1>>
      [] command = "set_brightness" -> <<2, BrightnessOf(b)>>

\* _build_ble_command: the payload bytes
BuildBleCommand(command, b) ==
    CASE command = "power_on" -> <<1, 1>>
      [] command = "power_off" -> <<1, 0>>
      [] command = "set_brightness" -> <<2, BrightnessOf(b)>>

\* the device acting on a payload written to it
DeviceApply(d, payload) ==
    IF payload[1] = 1 THEN [d EXCEPT !.power = payload[2]]
    ELSE [d EXCEPT !.brightness = payload[2]]

\* the frame of n bytes the device answers a read with
Report(d, n) ==
    [i \in 1..n |-> IF i = 1 THEN d.power ELSE IF i = 2 THEN d.brightness ELSE 0]

\* _get_device_status_ble: the status parsed from the bytes read;
\* status_data[0] of an empty frame raises IndexError
DecodeStatus(status_data) ==
    IF Len(status_data) = 0
    THEN [ok |-> FALSE, err |-> "IndexError", status |-> EmptyDict]
    ELSE [ok |-> TRUE, err |-> "",
          status |-> [power |-> IF status_data[1] = 1 THEN "on" ELSE "off",
                      brightness |-> IF Len(status_data) > 1 THEN status_data[2]
                                     ELSE 100,
                      online |-> TRUE]]

\* the one device _get_devices_ble lists
BleDevice ==
    [id |-> BleMac, name |-> "MarsPro Device (AA:BB)", type |-> "light",
     status |-> "online", mac |-> BleMac]

\* what the link does to one local-mode call
LinkEnvs(up) == IF up THEN {"ok", "io_fail"} ELSE {"ok", "io_fail", "connect_fail"}

\* one local-mode call: _connect_ble when the link is not up, then the read
\* or write (io = "" when the call raised before it); the link state after
\* it, the requests made on the link, and whether the call returned
LocalCall(up, env, io) ==
    IF ~up /\ env = "connect_fail"
    THEN [up |-> FALSE, io |-> <<"connect">>, ok |-> FALSE]
    ELSE [up |-> TRUE,
          io |-> (IF up THEN << >> ELSE <<"connect">>)
                   \o (IF io = "" THEN << >> ELSE <<io>>),
          ok |-> io # "" /\ env = "ok"]

\* a refresh in local mode: get_devices, then get_device_status of the one
\* device, merged by the loop body of _async_update_data
LocalRefresh(up, old, d, e1, e2, n) ==
    LET c1 == LocalCall(up, e1, "read")
        c2 == LocalCall(c1.up, e2, "read")
        outcome == IF c2.ok THEN DecodeStatus(Report(d, n))
                   ELSE [ok |-> FALSE, err |-> "ConnectionError", status |-> EmptyDict]
    IN IF ~c1.ok
       THEN [up |-> c1.up, devices |-> ListFailed(old),
             refresh |-> UpdateResult(FALSE), frame |-> << >>, statusOk |-> FALSE]
       ELSE [up |-> c2.up, devices |-> UpdateOne(old, EmptyRegistry, BleDevice, outcome),
             refresh |-> UpdateResult(TRUE),
             frame |-> IF c2.ok THEN Report(d, n) ELSE << >>,
             statusOk |-> outcome.ok]

\* the device list and the statuses the server answers with
CloudDevice == [id |-> "A", name |-> "n1"]
CloudStatuses == {[temperature |-> "25.5"], [power |-> "on", brightness |-> 255]}

\* responses of the devices and status requests of a refresh
RefreshOutcomes == {"200", "401"}

\* a refresh in cloud mode
CloudRefresh(sess, tok, old, lo, co1, co2, status) ==
    LET c1 == CloudCall(sess, tok, "devices", lo, co1)
        c2 == CloudCall(sess, c1.auth_token, "status", lo, co2)
        outcome == IF c2.err = "" THEN [ok |-> TRUE, err |-> "", status |-> status]
                   ELSE [ok |-> FALSE, err |-> c2.err, status |-> EmptyDict]
    IN IF c1.err # ""
       THEN [auth_token |-> c1.auth_token, devices |-> ListFailed(old),
             refresh |-> UpdateResult(FALSE), frame |-> << >>, statusOk |-> FALSE]
       ELSE [auth_token |-> c2.auth_token,
             devices |-> UpdateOne(old, EmptyRegistry, CloudDevice, outcome),
             refresh |-> UpdateResult(TRUE), frame |-> << >>,
             statusOk |-> outcome.ok]

\* the command writes / POSTs among the requests of a send_command that also
\* re-sends after a failure
CommandSendsRetry(calls, ok) ==
    LET sent == SelectSeq(calls, LAMBDA x : x \in {"write", "control"}) IN
    IF ok THEN sent ELSE sent \o sent

\* the command writes / POSTs among the requests one send_command made
CommandSends(calls, ok) ==
    SelectSeq(calls, LAMBDA x : x \in {"write", "control"})

\* the endpoints of a sequence of HTTP requests
Endpoints(requests) == [i \in 1..Len(requests) |-> requests[i].endpoint]

\* the record of one operation run through the stack
StackOp(kind, command, b, sends, cmdOk, r, result) ==
    [kind |-> kind, command |-> command, brightness |-> b, sends |-> sends,
     cmdOk |-> cmdOk, refresh |-> r.refresh, frame |-> r.frame,
     statusOk |-> r.statusOk, result |-> result,
     repeat |-> /\ command = "power_on"
                /\ stackOp.kind = "send_command" /\ stackOp.command = "power_on"
                /\ stackOp.result = "success"]

\* no refresh was run
NoRefresh == [refresh |-> "none", frame |-> << >>, statusOk |-> FALSE]

\* async_setup_entry: the MarsProAPI of the entry is constructed in cloud or
\* local mode and test_connection() is awaited; setup goes on whatever it
\* returned
StackSetup ==
    /\ stackOp.kind = "init"
    /\ \E cloud \in BOOLEAN :
        /\ use_cloud' = cloud
        /\ IF cloud
           THEN \E lo \in LoginOutcomes :
                LET auth == Authenticate("session", auth_token, lo) IN
                /\ session' = "session"
                /\ auth_token' = auth.auth_token
                /\ UNCHANGED linkUp
           ELSE \E env \in {"ok", "connect_fail"} :
                /\ linkUp' = (env = "ok")
                /\ UNCHANGED <<session, auth_token>>
    /\ stackOp' = StackOp("setup", "", Missing, << >>, FALSE, NoRefresh, "none")
    /\ UNCHANGED <<dev, devices, cloudOp>>
    /\ UNCHANGED <<pc, idx, updated, prevDevices, lastOp>>
    /\ UNCHANGED <<bleVars, apiBleVars, readerVars, sideVars>>

\* the coordinator's poll: _async_update_data through MarsProAPI
StackPoll ==
    /\ stackOp.kind # "init"
    /\ IF use_cloud
       THEN \E lo \in LoginOutcomes, co1, co2 \in RefreshOutcomes, status \in CloudStatuses :
            LET r == CloudRefresh(session, auth_token, devices, lo, co1, co2, status) IN
            /\ auth_token' = r.auth_token
            /\ devices' = r.devices
            /\ stackOp' = StackOp("refresh", "", Missing, << >>, FALSE, r, r.refresh)
            /\ UNCHANGED linkUp
       ELSE \E e1 \in LinkEnvs(linkUp), n \in 0..MaxFrame :
            \E e2 \in LinkEnvs(LocalCall(linkUp, e1, "read").up) :
            LET r == LocalRefresh(linkUp, devices, dev, e1, e2, n) IN
            /\ linkUp' = r.up
            /\ devices' = r.devices
            /\ stackOp' = StackOp("refresh", "", Missing, << >>, FALSE, r, r.refresh)
            /\ UNCHANGED auth_token
    /\ UNCHANGED <<use_cloud, dev, session, cloudOp>>
    /\ UNCHANGED <<pc, idx, updated, prevDevices, lastOp>>
    /\ UNCHANGED <<bleVars, apiBleVars, readerVars, sideVars>>

\* coordinator.send_command through MarsProAPI.send_command, then the
\* refresh it requests when the transport call returned
StackSendCommand ==
    /\ stackOp.kind # "init"
    /\ \E command \in ApiCommands :
       \E b \in (IF command = "set_brightness" THEN BrightnessArgs ELSE {Missing}) :
       IF use_cloud
       THEN \E lo \in LoginOutcomes, co0 \in CallOutcomes :
            LET c0 == CloudCall(session, auth_token, "control", lo, co0)
                cmdOk == c0.err = ""
                sends == CommandSends(Endpoints(c0.requests), cmdOk) IN
            /\ IF cmdOk
               THEN \E co1, co2 \in RefreshOutcomes, status \in CloudStatuses :
                    LET r == CloudRefresh(session, c0.auth_token, devices,
                                          lo, co1, co2, status) IN
                    /\ auth_token' = r.auth_token
                    /\ devices' = r.devices
                    /\ stackOp' = StackOp("send_command", command, b, sends, TRUE, r,
                                    CommandResult(TRUE, RequestRefresh(r.refresh)))
               ELSE /\ auth_token' = c0.auth_token
                    /\ stackOp' = StackOp("send_command", command, b, sends, FALSE,
                                    NoRefresh, CommandResult(FALSE, "none"))
                    /\ UNCHANGED devices
            /\ UNCHANGED <<linkUp, dev>>
       ELSE \E e0 \in LinkEnvs(linkUp) :
            LET c0 == LocalCall(linkUp, e0,
                                IF BuildBleRaises(command, b) THEN "" ELSE "write")
                cmdOk == c0.ok
                sends == CommandSends(c0.io, cmdOk)
                d1 == IF cmdOk THEN DeviceApply(dev, BuildBleCommand(command, b))
                      ELSE dev IN
            /\ dev' = d1
            /\ IF cmdOk
               THEN \E e1 \in LinkEnvs(c0.up), n \in 0..MaxFrame :
                    \E e2 \in LinkEnvs(LocalCall(c0.up, e1, "read").up) :
                    LET r == LocalRefresh(c0.up, devices, d1, e1, e2, n) IN
                    /\ linkUp' = r.up
                    /\ devices' = r.devices
                    /\ stackOp' = StackOp("send_command", command, b, sends, TRUE, r,
                                    CommandResult(TRUE, RequestRefresh(r.refresh)))
               ELSE /\ linkUp' = c0.up
                    /\ stackOp' = StackOp("send_command", command, b, sends, FALSE,
                                    NoRefresh, CommandResult(FALSE, "none"))
                    /\ UNCHANGED devices
            /\ UNCHANGED auth_token
    /\ UNCHANGED <<use_cloud, session, cloudOp>>
    /\ UNCHANGED <<pc, idx, updated, prevDevices, lastOp>>
    /\ UNCHANGED <<bleVars, apiBleVars, readerVars, sideVars>>

\* the environment: the device's state changes of its own (a switch on the
\* device, a dimmer)
DeviceDrift ==
    /\ stackOp.kind # "init" /\ ~use_cloud
    /\ \E p \in {0, 1}, br \in BrightnessBytes :
          /\ [power |-> p, brightness |-> br] # dev
          /\ dev' = [power |-> p, brightness |-> br]
    /\ UNCHANGED <<use_cloud, linkUp, stackOp>>
    /\ UNCHANGED <<coordVars, bleVars, cloudVars, apiBleVars, readerVars, sideVars>>

\* the environment: the BLE link drops
StackLinkDrop ==
    /\ linkUp
    /\ linkUp' = FALSE
    /\ UNCHANGED <<use_cloud, dev, stackOp>>
    /\ UNCHANGED <<coordVars, bleVars, cloudVars, apiBleVars, readerVars, sideVars>>

StackInit ==
    /\ use_cloud = FALSE
    /\ linkUp = FALSE
    /\ dev = [power |-> 0, brightness |-> 0]
    /\ stackOp = [kind |-> "init", command |-> "", brightness |-> Missing,
                  sends |-> << >>, cmdOk |-> FALSE, refresh |-> "none",
                  frame |-> << >>, statusOk |-> FALSE, result |-> "none",
                  repeat |-> FALSE]

----------------------------------------------------------------------------
(* Readers of the Registry (coordinator.py, get_device / get_devices /       *)
(* get_devices_by_type).  A reader holds one record it was handed: its       *)
(* value, and whether it is the very dict object the Registry stores under   *)
(* that id (alias).  A refresh is one step here.                             *)

\* what the transport hands a refresh in this part of the model
ReaderListings ==
    {l \in Listings : \A i \in 1..Len(l) : Truthy(Get(l[i], "id")) /\ Get(l[i], "name") = "n1"}
ReaderOutcomes == {[ok |-> FALSE, err |-> "ConnectionError", status |-> EmptyDict],
                   [ok |-> TRUE, err |-> "", status |-> [temperature |-> "25.5"]]}

RECURSIVE RefreshAll(_, _, _, _, _)
\* the for loop of _async_update_data from position i on
RefreshAll(old, upd, listing, outcomes, i) ==
    IF i > Len(listing) THEN upd
    ELSE RefreshAll(old, UpdateOne(old, upd, listing[i], outcomes[i]),
                    listing, outcomes, i + 1)

\* the refresh stored, under id, the dict object the Registry held before:
\* the last entry listed for id had its status read fail
KeptObject(old, listing, outcomes, id) ==
    /\ id \in DOMAIN old
    /\ \E i \in 1..Len(listing) :
          /\ Get(listing[i], "id") = id
          /\ ~outcomes[i].ok
          /\ \A j \in (i + 1)..Len(listing) : Get(listing[j], "id") # id

\* nothing is held
NoRecord == [id |-> "", alias |-> FALSE, value |-> EmptyDict]

\* get_device: self.devices.get(device_id, {}) hands out the stored dict
\* itself, or a new empty dict
GetDeviceRecord(id) ==
    IF id \in DOMAIN devices
    THEN [id |-> id, alias |-> TRUE, value |-> devices[id]]
    ELSE [id |-> id, alias |-> FALSE, value |-> EmptyDict]

\* kind of the last step, the Registry before it, the transport calls it
\* issued and whether it ran _async_update_data
ReaderOp(kind, io, refreshed) ==
    [kind |-> kind, before |-> devices, io |-> io, refreshed |-> refreshed]

ReaderStep(kind) == ReaderOp(kind, 0, FALSE)

\* a get with a default that stores the default it hands out
RegistryAfterSetDefault(reg, id) ==
    IF id \in DOMAIN reg THEN reg
    ELSE [k \in DOMAIN reg \cup {id} |-> IF k = id THEN EmptyDict ELSE reg[k]]

\* self.devices after self.devices.get(device_id, {}): dict.get stores nothing
RegistryAfterGet(reg, id) == reg

\* get_device(device_id)
ReaderGetDevice ==
    /\ \E id \in Ids :
        /\ held' = GetDeviceRecord(id)
        /\ devices' = RegistryAfterGet(devices, id)
    /\ readerOp' = ReaderStep("get_device")
    /\ UNCHANGED <<pc, idx, updated, prevDevices, lastOp>>
    /\ UNCHANGED <<bleVars, cloudVars, apiBleVars, stackVars, sideVars>>

\* get_devices(): a new list of the stored dicts; the reader keeps one element
ReaderGetDevices ==
    /\ IF DOMAIN devices = {} THEN held' = NoRecord
       ELSE \E id \in DOMAIN devices : held' = GetDeviceRecord(id)
    /\ readerOp' = ReaderStep("get_devices")
    /\ UNCHANGED <<coordVars, bleVars, cloudVars, apiBleVars, stackVars, sideVars>>

\* get_devices_by_type(device_type): the stored dicts whose "type" matches
ReaderGetDevicesByType ==
    /\ \E device_type \in {"light"} :
        LET match == {id \in DOMAIN devices : Get(devices[id], "type") = device_type} IN
        IF match = {} THEN held' = NoRecord
        ELSE \E id \in match : held' = GetDeviceRecord(id)
    /\ readerOp' = ReaderStep("get_devices_by_type")
    /\ UNCHANGED <<coordVars, bleVars, cloudVars, apiBleVars, stackVars, sideVars>>

\* the reader assigns to a key of the dict it holds
ReaderMutate ==
    /\ held.id # ""
    /\ \E change \in {[name |-> "changed"], [type |-> "light"]} :
        LET new == Update(held.value, change) IN
        /\ new # held.value
        /\ held' = [held EXCEPT !.value = new]
        /\ devices' = IF held.alias THEN [devices EXCEPT ![held.id] = new]
                      ELSE devices
    /\ readerOp' = ReaderStep("mutate")
    /\ UNCHANGED <<pc, idx, updated, prevDevices, lastOp>>
    /\ UNCHANGED <<bleVars, cloudVars, apiBleVars, stackVars, sideVars>>

\* one refresh (_async_update_data); the record held stays the stored object
\* only where the refresh kept that object
RefreshStep(kind, io) ==
    \E listOk \in BOOLEAN :
        IF ~listOk
        THEN /\ devices' = ListFailed(devices)
             /\ readerOp' = ReaderOp(kind, io + 1, TRUE)
             /\ UNCHANGED held
        ELSE \E listing \in ReaderListings :
             \E outcomes \in [1..Len(listing) -> ReaderOutcomes] :
                /\ devices' = RefreshAll(devices, EmptyRegistry, listing, outcomes, 1)
                /\ readerOp' = ReaderOp(kind, io + 1 + Len(listing), TRUE)
                /\ held' = [held EXCEPT
                              !.alias = @ /\ KeptObject(devices, listing, outcomes, held.id)]

ReaderRefresh ==
    /\ RefreshStep("refresh", 0)
    /\ UNCHANGED <<pc, idx, updated, prevDevices, lastOp>>
    /\ UNCHANGED <<bleVars, cloudVars, apiBleVars, stackVars, sideVars>>

\* coordinator.send_command: api.send_command, then async_request_refresh; a
\* failed api.send_command raises before the refresh is requested
ReaderSendCommand ==
    /\ \E sent \in BOOLEAN :
        IF sent THEN RefreshStep("send_command", 1)
        ELSE /\ readerOp' = ReaderOp("send_command", 1, FALSE)
             /\ UNCHANGED <<devices, held>>
    /\ UNCHANGED <<pc, idx, updated, prevDevices, lastOp>>
    /\ UNCHANGED <<bleVars, cloudVars, apiBleVars, stackVars, sideVars>>

ReaderInit ==
    /\ held = NoRecord
    /\ readerOp = [kind |-> "init", before |-> EmptyRegistry, io |-> 0, refreshed |-> FALSE]

BleInit ==
    /\ client = NoClient
    /\ connected = FALSE
    /\ characteristics = {}
    /\ deviceInfo = None
    /\ linkOpen = {}
    /\ nextClient = 0
    /\ bleOp = [op |-> "init", io |-> << >>, result |-> "none",
                pre |-> [client |-> NoClient, connected |-> FALSE,
                         characteristics |-> {}, deviceInfo |-> None],
                cmd |-> NoCommand, packet |-> << >>, found |-> {}]

CoordInit ==
    /\ devices = EmptyRegistry
    /\ pc = "idle"
    /\ idx = 1
    /\ updated = EmptyRegistry
    /\ prevDevices = EmptyRegistry
    /\ lastOp = NewOp("init", << >>)

----------------------------------------------------------------------------
(* Notifications of MarsProBLEClient (ble_client_standalone.py,              *)
(* set_data_callback / _notification_handler).  bleak calls the coroutine    *)
(* handler by making a task of it for every notification; the event loop     *)
(* runs the tasks in the order they were made, and the handler has no await, *)
(* so a task that started ends before the next one starts.                   *)

MaxNotes == 2

\* payloads of the notifications
NoteData == {<<1>>, <<2, 7>>}

\* _parse_sensor_data: the placeholder reading, whatever the bytes are (the
\* timestamp field, the loop's clock, is left out)
ParseSensorData(data) == [temperature |-> "25.5", humidity |-> "60.0", co2 |-> "400.0"]

\* the task the event loop runs next, were it the one made last
NextTaskNewest(tasks) == Len(tasks)

\* the task the event loop runs next: the one made first
NextTask(tasks) == 1

\* a sequence without its k-th element
Without(seq, k) == [i \in 1..(Len(seq) - 1) |-> IF i < k THEN seq[i] ELSE seq[i + 1]]

\* set_data_callback(callback): the callback is stored first; start_notify is
\* awaited only on a Ready client that cached the data characteristic, and an
\* error of start_notify propagates
SetDataCallback ==
    /\ data_callback' = "callback"
    /\ IF ~NotReady(connected, client) /\ DATA_CHAR_UUID \in characteristics
       THEN \E ok \in IoOutcomes :
                subscribed' = IF ok THEN subscribed \cup {client} ELSE subscribed
       ELSE UNCHANGED subscribed
    /\ UNCHANGED <<arrived, pending, delivered>>
    /\ UNCHANGED <<coordVars, bleVars, cloudVars, apiBleVars, stackVars, readerVars,
                   scanVars, flowVars>>

\* the environment: a subscribed link delivers a notification and bleak makes
\* a task of _notification_handler(sender, data)
NotificationArrives ==
    /\ Len(arrived) < MaxNotes
    /\ subscribed \cap linkOpen # {}
    /\ \E data \in NoteData :
        /\ arrived' = Append(arrived, data)
        /\ pending' = Append(pending, [data |-> data, of |-> Len(arrived) + 1])
    /\ UNCHANGED <<data_callback, subscribed, delivered>>
    /\ UNCHANGED <<coordVars, bleVars, cloudVars, apiBleVars, stackVars, readerVars,
                   scanVars, flowVars>>

\* _notification_handler(sender, data), run to its end
NotificationHandler ==
    /\ pending # << >>
    /\ LET k == NextTask(pending)
           t == pending[k] IN
        /\ pending' = Without(pending, k)
        /\ delivered' = IF data_callback # None
                        THEN Append(delivered, [value |-> ParseSensorData(t.data),
                                                of |-> t.of])
                        ELSE delivered
    /\ UNCHANGED <<data_callback, subscribed, arrived>>
    /\ UNCHANGED <<coordVars, bleVars, cloudVars, apiBleVars, stackVars, readerVars,
                   scanVars, flowVars>>

NotifyInit ==
    /\ data_callback = None
    /\ subscribed = {}
    /\ arrived = << >>
    /\ pending = << >>
    /\ delivered = << >>

----------------------------------------------------------------------------
(* MarsProDeviceScanner, of ble_client_standalone.py and of ble_client.py.   *)
(* A name is the sequence of its characters; the empty sequence stands for   *)
(* a name that is None or "", which every test of the code treats alike.     *)

MaxScan == 2
MaxScans == 3

\* str.lower() on the characters the names are made of
LowerChar(c) ==
    CASE c = "M" -> "m" [] c = "A" -> "a" [] c = "R" -> "r" [] c = "S" -> "s"
      [] c = "O" -> "o" [] OTHER -> c

Lower(name) == [i \in 1..Len(name) |-> LowerChar(name[i])]

\* needle in name
Contains(name, needle) ==
    \E i \in 0..(Len(name) - Len(needle)) :
        \A j \in 1..Len(needle) : name[i + j] = needle[j]

MarsproWord == <<"m", "a", "r", "s", "p", "r", "o">>
MarsWord == <<"m", "a", "r", "s">>

\* _is_marspro_device: no name, or an empty one, is no match
IsMarsproDevice(device) ==
    /\ device.name # << >>
    /\ Contains(Lower(device.name), MarsproWord) \/ Contains(Lower(device.name), MarsWord)

UnknownName == <<"U", "n", "k", "n", "o", "w", "n">>

\* _create_marspro_device (the fields that depend on the BLE device)
CreateMarsproDevice(device) ==
    [address |-> device.address,
     name |-> IF device.name = << >> THEN UnknownName ELSE device.name]

\* the BLE devices in range
BleDevices ==
    {[address |-> "a1", name |-> <<"M", "a", "r", "s", "P", "r", "o">>],
     [address |-> "a2", name |-> <<"O", "t", "h", "e", "r">>],
     [address |-> "a3", name |-> <<"X", "M", "A", "R", "S">>],
     [address |-> "a4", name |-> << >>],
     [address |-> "a5", name |-> <<"M", "a", "r">>]}

\* what one BleakScanner.discover() reports: every device at most once
Reports ==
    {r \in UNION {[1..n -> BleDevices] : n \in 0..MaxScan} :
        \A i, j \in 1..Len(r) : i # j => r[i].address # r[j].address}

RECURSIVE Matching(_, _)
\* the MarsPro devices made of the devices from position i on, in order
Matching(report, i) ==
    IF i > Len(report) THEN << >>
    ELSE IF IsMarsproDevice(report[i])
    THEN <<CreateMarsproDevice(report[i])>> \o Matching(report, i + 1)
    ELSE Matching(report, i + 1)

ScanOp(kind, ok, report, returned) ==
    [kind |-> kind, ok |-> ok, report |-> report, returned |-> returned,
     scans |-> scanOp.scans + 1]

\* ble_client_standalone.py scan_for_devices: the matches are appended to
\* self.discovered_devices, and that list is returned
ScanForDevicesStandalone ==
    /\ scanOp.scans < MaxScans
    /\ \E ok \in BOOLEAN :
        IF ~ok
        THEN /\ scanOp' = ScanOp("standalone", FALSE, << >>, << >>)
             /\ UNCHANGED discovered_devices
        ELSE \E report \in Reports :
             LET all == discovered_devices \o Matching(report, 1) IN
             /\ discovered_devices' = all
             /\ scanOp' = ScanOp("standalone", TRUE, report, all)
    /\ UNCHANGED discovered_by_address
    /\ UNCHANGED <<coordVars, bleVars, cloudVars, apiBleVars, stackVars, readerVars,
                   notifyVars, flowVars>>

\* ble_client.py scan_for_devices: the matches of this scan are returned and
\* recorded under their address
ScanForDevices ==
    /\ scanOp.scans < MaxScans
    /\ \E ok \in BOOLEAN :
        IF ~ok
        THEN /\ scanOp' = ScanOp("ble_client", FALSE, << >>, << >>)
             /\ UNCHANGED discovered_by_address
        ELSE \E report \in Reports :
             LET found == Matching(report, 1) IN
             /\ discovered_by_address' =
                   [a \in DOMAIN discovered_by_address
                            \cup {found[i].address : i \in 1..Len(found)} |->
                      IF \E i \in 1..Len(found) : found[i].address = a
                      THEN CHOOSE d \in {found[i] : i \in 1..Len(found)} : d.address = a
                      ELSE discovered_by_address[a]]
             /\ scanOp' = ScanOp("ble_client", TRUE, report, found)
    /\ UNCHANGED discovered_devices
    /\ UNCHANGED <<coordVars, bleVars, cloudVars, apiBleVars, stackVars, readerVars,
                   notifyVars, flowVars>>

ScanInit ==
    /\ discovered_devices = << >>
    /\ discovered_by_address = << >>
    /\ scanOp = [kind |-> "init", ok |-> FALSE, report |-> << >>, returned |-> << >>,
                 scans |-> 0]

----------------------------------------------------------------------------
(* The config flow (config_flow.py, async_step_user) and the setup of a      *)
(* config entry (__init__.py, async_setup_entry).  Each makes a MarsProAPI   *)
(* of its own and awaits test_connection() on it.                            *)

MaxEntries == 2

\* user_input / entry.data: CONF_USE_CLOUD and CONF_BLE_MAC
EntryData == {[use_cloud |-> u, ble_mac |-> m] : u \in BOOLEAN, m \in {None, BleMac}}

\* what the environment does to one test_connection: whether constructing the
\* aiohttp session raises, the response of the login, the result of
\* BleakClient.connect
TestEnvs ==
    {[sessionOk |-> s, lo |-> lo, connectOk |-> c] :
        s \in BOOLEAN, lo \in LoginOutcomes, c \in BOOLEAN}

\* test_connection on a new MarsProAPI: "True", "False" or "raised".
\* _test_cloud_connection and _test_ble_connection catch every exception of
\* _authenticate and _connect_ble and return False; only what is raised
\* outside their try blocks (the construction of the session) comes out
TestConnection(data, env) ==
    IF data.use_cloud
    THEN IF ~env.sessionOk THEN "raised"
         ELSE IF Authenticate("session", None, env.lo).err = "" THEN "True"
         ELSE "False"
    ELSE IF ~Truthy(data.ble_mac) THEN "False"
    ELSE IF env.connectOk THEN "True"
    ELSE "False"

FlowOp(kind, data, test, result) ==
    [kind |-> kind, data |-> data, test |-> test, result |-> result]

NoData == [use_cloud |-> FALSE, ble_mac |-> None]

\* async_step_user(None): the empty form
AsyncStepUserForm ==
    /\ flowOp' = FlowOp("user", NoData, "none", "form")
    /\ UNCHANGED <<entries, loaded>>
    /\ UNCHANGED <<coordVars, bleVars, cloudVars, apiBleVars, stackVars, readerVars,
                   notifyVars, scanVars>>

\* async_step_user(user_input): the entry is created unless something in the
\* try block raised; the value test_connection returns is not looked at
AsyncStepUser ==
    /\ Len(entries) < MaxEntries
    /\ \E data \in EntryData, env \in TestEnvs :
        LET test == TestConnection(data, env) IN
        IF test = "raised"
        THEN /\ flowOp' = FlowOp("user", data, test, "form:cannot_connect")
             /\ UNCHANGED entries
        ELSE /\ flowOp' = FlowOp("user", data, test, "create_entry")
             /\ entries' = Append(entries, data)
    /\ UNCHANGED loaded
    /\ UNCHANGED <<coordVars, bleVars, cloudVars, apiBleVars, stackVars, readerVars,
                   notifyVars, scanVars>>

\* async_setup_entry(hass, entry): ConfigEntryNotReady when test_connection
\* raised; else the coordinator is made and awaits its first refresh, which
\* raises ConfigEntryNotReady itself when it fails
AsyncSetupEntry ==
    /\ \E e \in 1..Len(entries), env \in TestEnvs, refreshOk \in BOOLEAN :
        LET test == TestConnection(entries[e], env) IN
        /\ e \notin loaded
        /\ IF test = "raised"
           THEN /\ flowOp' = FlowOp("setup", entries[e], test, "ConfigEntryNotReady")
                /\ UNCHANGED loaded
           ELSE IF ~refreshOk
           THEN /\ flowOp' = FlowOp("setup", entries[e], test,
                                    "first_refresh:ConfigEntryNotReady")
                /\ UNCHANGED loaded
           ELSE /\ flowOp' = FlowOp("setup", entries[e], test, "True")
                /\ loaded' = loaded \cup {e}
    /\ UNCHANGED entries
    /\ UNCHANGED <<coordVars, bleVars, cloudVars, apiBleVars, stackVars, readerVars,
                   notifyVars, scanVars>>

\* async_unload_entry
AsyncUnloadEntry ==
    /\ \E e \in loaded :
        /\ loaded' = loaded \ {e}
        /\ flowOp' = FlowOp("unload", entries[e], "none", "True")
    /\ UNCHANGED entries
    /\ UNCHANGED <<coordVars, bleVars, cloudVars, apiBleVars, stackVars, readerVars,
                   notifyVars, scanVars>>

FlowInit ==
    /\ entries = << >>
    /\ loaded = {}
    /\ flowOp = FlowOp("init", NoData, "none", "none")

Init == CoordInit /\ BleInit /\ CloudInit /\ ApiBleInit /\ StackInit /\ ReaderInit
           /\ NotifyInit /\ ScanInit /\ FlowInit

NotifyNext == Connect \/ Disconnect \/ LinkDrop \/ SetDataCallback
                 \/ NotificationArrives \/ NotificationHandler

SpecNotify == Init /\ [][NotifyNext]_vars

ScanNext == ScanForDevicesStandalone \/ ScanForDevices

SpecScan == Init /\ [][ScanNext]_vars

FlowNext == AsyncStepUserForm \/ AsyncStepUser \/ AsyncSetupEntry \/ AsyncUnloadEntry

SpecFlow == Init /\ [][FlowNext]_vars

CoordNext == Poll \/ SendCommand \/ CommandReturn \/ GetDevices \/ ReadStatus
                \/ FinishRefresh

SpecCoord == Init /\ [][CoordNext]_vars

BleNext == Connect \/ Disconnect \/ ReadDeviceInfo \/ ReadSensorData
              \/ BleSendCommand \/ LinkDrop

SpecBle == Init /\ [][BleNext]_vars

CloudNext == TestCloudConnection \/ GetDevicesCloud \/ GetDeviceStatusCloud
                \/ SendCommandCloud \/ DisconnectCloud

SpecApiCloud == Init /\ [][CloudNext]_vars

ApiBleNext == GetDevicesBle \/ GetDeviceStatusBle \/ SendCommandBle
                 \/ TestBleConnection \/ ConnectBleReturn \/ LinkIoReturn
                 \/ DisconnectBle \/ DisconnectBleReturn \/ ApiLinkDrop

SpecApiBle == Init /\ [][ApiBleNext]_vars

StackNext == StackSetup \/ StackPoll \/ StackSendCommand \/ DeviceDrift
                \/ StackLinkDrop

SpecStack == Init /\ [][StackNext]_vars

ReaderNext == ReaderGetDevice \/ ReaderGetDevices \/ ReaderGetDevicesByType
                 \/ ReaderMutate \/ ReaderRefresh \/ ReaderSendCommand

SpecReaders == Init /\ [][ReaderNext]_vars

\* the operations of the coordinator alone, as its own code runs them
RegistryNext == ReaderGetDevice \/ ReaderGetDevices \/ ReaderGetDevicesByType
                   \/ ReaderRefresh \/ ReaderSendCommand

SpecRegistry == Init /\ [][RegistryNext]_vars

----------------------------------------------------------------------------
(* Claims about the coordinator, checked under SpecCoord *)

\* a refresh ran in the last operation and its get_devices call returned
RefreshListed == pc = "idle" /\ lastOp.refresh = "ok"

\* the positions of the last listing that carry the id
Positions(id) == {i \in 1..Len(lastOp.listing) : Get(lastOp.listing[i], "id") = id}

\* the last position of the listing that carries the id
LastPos(id) == CHOOSE i \in Positions(id) : \A j \in Positions(id) : j <= i

\* C1: after a refresh whose listing succeeded, a listed device whose status
\* read succeeded holds the merge of its new listing entry and the new status,
\* and a listed device whose status read failed and that was in the Registry
\* holds exactly its previous record.
C1_PartialFailureKeepsPrevious ==
    RefreshListed =>
        \A id \in Ids : Positions(id) # {} =>
            LET i == LastPos(id) IN
            /\ lastOp.outcomes[i].ok =>
                  /\ id \in DOMAIN devices
                  /\ devices[id] = Update(lastOp.listing[i], lastOp.outcomes[i].status)
            /\ (~lastOp.outcomes[i].ok /\ id \in DOMAIN prevDevices) =>
                  /\ id \in DOMAIN devices
                  /\ devices[id] = prevDevices[id]

\* C1 witness: one refresh in which A's read succeeds and B's read fails while
\* B is in the Registry with a record that differs from its new listing entry
C1_Witness ==
    /\ RefreshListed
    /\ \E a, b \in Ids :
        /\ a # b /\ Positions(a) # {} /\ Positions(b) # {}
        /\ lastOp.outcomes[LastPos(a)].ok
        /\ ~lastOp.outcomes[LastPos(b)].ok
        /\ b \in DOMAIN prevDevices
        /\ prevDevices[b] # lastOp.listing[LastPos(b)]
        /\ a \in DOMAIN prevDevices
        /\ prevDevices[a] # devices[a]

\* C2: a refresh whose get_devices call fails raises UpdateFailed and leaves
\* the Registry exactly as it was before the call.
C2_ListFailureLeavesRegistry ==
    (pc = "idle" /\ lastOp.kind = "refresh" /\ ~lastOp.listOk) =>
        /\ lastOp.result = "UpdateFailed"
        /\ devices = prevDevices

\* C2 witness: a failed listing on a Registry that holds two devices
C2_Witness ==
    /\ pc = "idle" /\ lastOp.kind = "refresh" /\ ~lastOp.listOk
    /\ DOMAIN prevDevices = Ids

\* C3: when the transport call of send_command succeeds and the refresh it
\* triggers fails, send_command still returns the command's result and the
\* Registry is as it was before the command.
C3_CommandSuccessSurvivesRefreshFailure ==
    (lastOp.kind = "command" /\ lastOp.cmdOk /\ lastOp.refresh = "UpdateFailed") =>
        /\ lastOp.result = "success"
        /\ devices = prevDevices

\* C3 witness: a successful command whose refresh failed, on a non-empty Registry
C3_Witness ==
    /\ lastOp.kind = "command" /\ lastOp.cmdOk /\ lastOp.refresh = "UpdateFailed"
    /\ DOMAIN prevDevices # {}

\* the ids of the last listing
ListedIds == {Get(lastOp.listing[i], "id") : i \in 1..Len(lastOp.listing)}

\* C4 as stated: no refresh removes a device that was in the Registry before it.
C4_NoRefreshRemoves ==
    (pc = "idle" /\ lastOp.refresh \in {"ok", "UpdateFailed"}) =>
        DOMAIN prevDevices \subseteq DOMAIN devices

\* C4 amended: a device leaves the Registry only in a refresh whose listing
\* succeeded and does not contain its id; a failed listing or a failed status
\* read never removes a device.
C4_RemovedOnlyWhenUnlisted ==
    \A id \in DOMAIN prevDevices :
        id \notin DOMAIN devices => (RefreshListed /\ id \notin ListedIds)

\* C4 witness: a refresh that lists A only, with A's status read failing, on a
\* Registry holding A and B: A stays and B is removed
C4_Witness ==
    /\ RefreshListed
    /\ DOMAIN prevDevices = {"A", "B"}
    /\ ListedIds = {"A"}
    /\ ~lastOp.outcomes[LastPos("A")].ok
    /\ DOMAIN devices = {"A"}

\* the positions of the call log of the last operation that hold the call
CallPositions(name) ==
    {i \in 1..Len(lastOp.calls) : lastOp.calls[i].call = name}

\* C16: in coordinator.send_command no get_devices or get_device_status call
\* of the triggered refresh begins before api.send_command has returned.
C16_RefreshAfterCommandReturn ==
    lastOp.kind = "command" =>
        \A i \in CallPositions("get_devices") \cup CallPositions("get_device_status") :
            \E j \in CallPositions("send_command:returned") : j < i

\* C16 witness: a finished send_command whose refresh listed a device and read
\* its status
C16_Witness ==
    /\ pc = "idle" /\ lastOp.kind = "command"
    /\ CallPositions("get_devices") # {}
    /\ CallPositions("get_device_status") # {}

\* C17 as stated: every send_command call triggers exactly one refresh.
C17_AlwaysOneRefresh ==
    (pc = "idle" /\ lastOp.kind = "command") =>
        Cardinality(CallPositions("get_devices")) = 1

\* C17 amended: a send_command call whose transport call returned triggers
\* exactly one refresh; one whose transport call raised re-raises and triggers
\* no refresh.
C17_OneRefreshIffCommandReturned ==
    (pc = "idle" /\ lastOp.kind = "command") =>
        /\ Cardinality(CallPositions("get_devices")) = (IF lastOp.cmdOk THEN 1 ELSE 0)
        /\ ~lastOp.cmdOk => (lastOp.result = "raised" /\ lastOp.refresh = "none")

\* C17 witness: a send_command whose transport call raised, on a Registry that
\* holds a device
C17_Witness ==
    /\ pc = "idle" /\ lastOp.kind = "command" /\ ~lastOp.cmdOk
    /\ CallPositions("send_command:raised") # {}
    /\ DOMAIN devices # {}

\* C18: a finished refresh raised UpdateFailed exactly when get_devices failed;
\* when get_devices succeeded it completes however many status reads failed
\* and whatever they raised.
C18_UpdateFailedOnlyOnListFailure ==
    (pc = "idle" /\ lastOp.refresh \in {"ok", "UpdateFailed"}) =>
        (lastOp.refresh = "UpdateFailed" <=> ~lastOp.listOk)

\* C18 witness: a refresh of two devices whose status reads both failed, with
\* different exceptions, and that completed
C18_Witness ==
    /\ pc = "idle" /\ lastOp.refresh = "ok"
    /\ Len(lastOp.outcomes) = 2
    /\ ~lastOp.outcomes[1].ok /\ ~lastOp.outcomes[2].ok
    /\ {lastOp.outcomes[1].err, lastOp.outcomes[2].err} = ErrorKinds

\* the record is the merge of an entry of the last listing with its status
IsMerge(id, rec) ==
    \E i \in Positions(id) :
        /\ lastOp.outcomes[i].ok
        /\ rec = Update(lastOp.listing[i], lastOp.outcomes[i].status)

\* the record is the one the Registry held before the last refresh
IsPrevious(id, rec) ==
    id \in DOMAIN prevDevices /\ rec = prevDevices[id]

\* the record is the bare entry of the last listing of a device that is new
\* to the Registry and whose status read failed
IsBareListing(id, rec) ==
    /\ id \notin DOMAIN prevDevices
    /\ \E i \in Positions(id) : ~lastOp.outcomes[i].ok /\ rec = lastOp.listing[i]

\* C19 as stated: after a refresh every record is the merge of a listing entry
\* with its status of that refresh, or the record held before the refresh.
C19_MergeOrPrevious ==
    RefreshListed =>
        \A id \in DOMAIN devices :
            IsMerge(id, devices[id]) \/ IsPrevious(id, devices[id])

\* C19 amended: after a refresh every record is the merge of a listing entry
\* with its status of that refresh, or the record held before the refresh, or,
\* for a device that was not in the Registry and whose status read failed, the
\* listing entry alone.
C19_MergeOrPreviousOrBareListing ==
    RefreshListed =>
        \A id \in DOMAIN devices :
            \/ IsMerge(id, devices[id])
            \/ IsPrevious(id, devices[id])
            \/ IsBareListing(id, devices[id])

\* C19 witness: one refresh after which A holds a merge, and B, whose read
\* failed, holds its previous record, which differs from its new listing entry
C19_Witness ==
    /\ RefreshListed
    /\ DOMAIN devices = {"A", "B"}
    /\ IsMerge("A", devices["A"]) /\ ~IsPrevious("A", devices["A"])
    /\ IsPrevious("B", devices["B"]) /\ ~IsMerge("B", devices["B"])
    /\ \A i \in Positions("B") : devices["B"] # lastOp.listing[i]

\* C20: the id of every Registry record equals the key it is stored under.
C20_RecordIdIsKey ==
    \A id \in DOMAIN devices : Get(devices[id], "id") = id

----------------------------------------------------------------------------
(* Claims about MarsProBLEClient, checked under SpecBle *)

\* the operations that read or write on the link
IoOps == {"read_device_info", "read_sensor_data", "send_command"}

\* the last call made a read or write that failed
IoFailed ==
    \E i \in 1..Len(bleOp.io) : bleOp.io[i] \in {"read:fail", "write:fail"}

\* C5: after a connect() that failed (at opening the link or at service
\* discovery) the client is Disconnected, whatever its state before the call.
C5_FailedConnectEndsDisconnected ==
    (bleOp.op = "connect" /\ bleOp.result = "False") => ~connected

\* C6: when a read or write on the link fails inside read_device_info,
\* read_sensor_data or send_command while the client is Ready, the client is
\* Disconnected when the operation returns.
C6_IoFailureEndsDisconnected ==
    (bleOp.op \in IoOps /\ bleOp.pre.connected /\ IoFailed) => ~connected

\* C7: connect() returns True, or turns is_connected true, only on a call in
\* which the link was opened and service discovery completed after it.
C7_ReadyOnlyThroughDiscovery ==
    (bleOp.op = "connect" /\ (bleOp.result = "True" \/ (connected /\ ~bleOp.pre.connected)))
        => /\ bleOp.io = <<"connect:ok", "get_services:ok">>
           /\ bleOp.result = "True"
           /\ connected

\* C7 witness: a connect() that returned True on a client that was not connected
C7_Witness ==
    /\ bleOp.op = "connect" /\ bleOp.result = "True"
    /\ connected /\ ~bleOp.pre.connected

\* C8: disconnect() completes in every state with the client Disconnected,
\* also when the disconnect of the underlying link fails.
C8_DisconnectEndsDisconnected ==
    bleOp.op = "disconnect" => (bleOp.result = "returned" /\ ~connected)

\* C9: once disconnect() has returned, no link that a connect() of this client
\* opened is still open.
C9_DisconnectReleasesLink ==
    (bleOp.op = "disconnect" /\ bleOp.result = "returned") => linkOpen = {}

\* C10: read_device_info, read_sensor_data and send_command called while
\* is_connected is false make no read or write on the link, return None / False
\* and leave the client's state as it was; a call that did read or write was
\* made while is_connected was true.
C10_NoIoUnlessReady ==
    bleOp.op \in IoOps =>
        /\ ~bleOp.pre.connected =>
              /\ bleOp.io = << >>
              /\ bleOp.result \in {"None", "False"}
              /\ ClientState = bleOp.pre
        /\ bleOp.io # << >> => bleOp.pre.connected

\* C10 witness: send_command on a client that holds a BleakClient with an open
\* link and a cached command characteristic, but is not connected
C10_Witness ==
    /\ bleOp.op = "send_command"
    /\ ~bleOp.pre.connected
    /\ client # NoClient /\ client \in linkOpen
    /\ COMMAND_CHAR_UUID \in characteristics
    /\ bleOp.result = "False"


----------------------------------------------------------------------------
(* Claims about MarsProAPI, checked under SpecApiBle and SpecApiCloud *)

\* C11: a command with an unknown command name is rejected before any
\* transport I/O: a local-mode send_command for it issues no connect and no
\* write on the link.
C11_UnknownCommandNoIo ==
    \A t \in Callers :
        (task[t].op = "send_command" /\ BuildBleCommandRaises(task[t].command))
            => task[t].io = << >>

\* the cloud-mode calls that request data or control
DataCalls == {"get_devices", "get_device_status", "send_command"}

\* C12: in cloud mode a 401 answer to a call made with a cached token is
\* followed by one login and one retry of the same request.
C12_ReauthenticatesOn401 ==
    ( /\ cloudOp.kind \in DataCalls
      /\ Truthy(cloudOp.sessionBefore) /\ Truthy(cloudOp.tokenBefore)
      /\ cloudOp.requests # << >>
      /\ cloudOp.requests[1].status = "401" )
    => /\ Len(cloudOp.requests) = 3
       /\ cloudOp.requests[2].endpoint = "login"
       /\ cloudOp.requests[3].endpoint = cloudOp.requests[1].endpoint

\* C13: in cloud mode the first call on a freshly constructed MarsProAPI
\* performs a login exchange before the requested call.
C13_FirstCallLogsIn ==
    (cloudOp.kind \in DataCalls /\ cloudOp.first)
        => /\ cloudOp.requests # << >>
           /\ cloudOp.requests[1].endpoint = "login"

\* C14: a MarsProAPI call made while the transport is not connected (in cloud
\* mode: no session, before the first use or after disconnect) establishes the
\* session and then performs the operation.
C14_ConnectsThenOperates ==
    (cloudOp.kind \in DataCalls /\ ~Truthy(cloudOp.sessionBefore))
        => /\ cloudOp.err # "RuntimeError"
           /\ \E i \in 1..Len(cloudOp.requests) :
                 cloudOp.requests[i].endpoint = Endpoint(cloudOp.kind)

\* C15: at most one request (connect, read, write or disconnect) is in flight
\* on the BLE link of one MarsProAPI at any time.
C15_OneRequestInFlight ==
    Cardinality({t \in Callers : task[t].pc \in InFlightPcs}) <= 1


----------------------------------------------------------------------------
(* Further claims about MarsProBLEClient, checked under SpecBle *)

\* C26: a connect() to a device that lacks one of the required
\* characteristics (command, data, configuration, status) does not succeed.
C26_MissingCharacteristicFailsConnect ==
    (bleOp.op = "connect" /\ bleOp.result = "True")
        => CharUuids \subseteq characteristics


\* C24: the frame encode produces determines the parameters it was built
\* from, for every opcode: no two different parameter sets of one opcode are
\* encoded as the same frame (otherwise no decode can return the parameters).
C24_FrameDeterminesParameters ==
    (bleOp.op = "send_command" /\ bleOp.packet # << >>) =>
        \A other \in Commands :
            ( /\ other.type = bleOp.cmd.type
              /\ ~BuildRaises(other)
              /\ BuildCommandPacket(other) = bleOp.packet )
            => other = bleOp.cmd

\* C25: the packet _build_command_packet builds starts with the opcode; for
\* CMD_SET_LIGHT one byte equal to the intensity follows (intensity 50 gives
\* [0x10, 0x32]), for CMD_SET_TEMPERATURE and CMD_SET_HUMIDITY four bytes.
C25_PacketLayout ==
    (bleOp.op = "send_command" /\ bleOp.packet # << >>) =>
        LET cmd == bleOp.cmd
            packet == bleOp.packet IN
        /\ packet[1] = cmd.type
        /\ cmd.type = CMD_SET_LIGHT =>
              /\ Len(packet) = 2
              /\ cmd.intensity # Missing => packet[2] = cmd.intensity
              /\ cmd.intensity = 50 => packet = <<16, 50>>
        /\ cmd.type \in {CMD_SET_TEMPERATURE, CMD_SET_HUMIDITY} =>
              /\ Len(packet) = 5
              /\ \A i \in 2..5 : packet[i] \in 0..255

\* C25 witness: a temperature command of 25 degrees was written as the opcode
\* and the four bytes of 25.0 (0x41C80000, lowest byte first)
C25_Witness ==
    /\ bleOp.op = "send_command" /\ bleOp.io = <<"write:ok">>
    /\ bleOp.cmd.type = CMD_SET_TEMPERATURE /\ bleOp.cmd.temperature = 25
    /\ bleOp.packet = <<32, 0, 0, 200, 65>>

\* C27: send_command returns True exactly when the client was connected, the
\* command characteristic had been discovered and one write to it completed;
\* otherwise it returns False, and it never raises.
C27_TrueIffWritten ==
    bleOp.op = "send_command" =>
        /\ bleOp.result \in {"True", "False"}
        /\ bleOp.result = "True" <=>
              /\ bleOp.pre.connected /\ bleOp.pre.client # NoClient
              /\ COMMAND_CHAR_UUID \in bleOp.pre.characteristics
              /\ bleOp.io = <<"write:ok">>

\* C27 witness: a connected client with the command characteristic whose
\* write failed
C27_Witness ==
    /\ bleOp.op = "send_command" /\ bleOp.result = "False"
    /\ bleOp.pre.connected
    /\ COMMAND_CHAR_UUID \in bleOp.pre.characteristics
    /\ bleOp.io = <<"write:fail">>


----------------------------------------------------------------------------
(* Claims about the coordinator on MarsProAPI, checked under SpecStack *)

\* C21: the brightness of every Registry record is in [0,100], for any status
\* bytes the device returns and any brightness a command was sent with.
C21_BrightnessIsPercent ==
    \A id \in DOMAIN devices :
        "brightness" \in DOMAIN devices[id] => devices[id].brightness \in 0..100

\* C22: a status frame of fewer than two bytes (power, brightness) read in
\* local mode is a parse error, never a status with a default filled in.
C22_ShortFrameIsParseError ==
    (~use_cloud /\ stackOp.refresh = "ok" /\ Len(stackOp.frame) < 2)
        => ~stackOp.statusOk

\* C23: a set_brightness command whose brightness is missing or outside
\* [0,100] is rejected and nothing is written to the device.
C23_BadBrightnessNotWritten ==
    ( /\ stackOp.kind = "send_command" /\ ~use_cloud
      /\ stackOp.command = "set_brightness"
      /\ stackOp.brightness \notin 0..100 )
    => stackOp.sends = << >>

\* C28: one coordinator.send_command issues at most one command write (local
\* mode) or POST (cloud mode), also when the command failed.
C28_AtMostOneSend ==
    stackOp.kind = "send_command" => Len(stackOp.sends) <= 1

\* C28 witness: a command whose one write failed, and send_command raised
C28_Witness ==
    /\ stackOp.kind = "send_command" /\ ~use_cloud
    /\ stackOp.sends = <<"write">> /\ ~stackOp.cmdOk
    /\ stackOp.result = "raised"

\* C29: power_on sent through the coordinator in local mode succeeds whenever
\* its write is acknowledged, the first time and when repeated, and the
\* Registry then shows the device's power as on once its status was read.
C29_PowerOnIdempotent ==
    (stackOp.kind = "send_command" /\ ~use_cloud /\ stackOp.command = "power_on"
        /\ stackOp.cmdOk)
    => /\ stackOp.result = "success"
       /\ stackOp.sends = <<"write">>
       /\ stackOp.statusOk =>
             /\ BleMac \in DOMAIN devices
             /\ devices[BleMac].power = "on"

\* C29 witness: the second of two power_on commands in succession succeeded
\* and the Registry shows the power as on
C29_Witness ==
    /\ stackOp.kind = "send_command" /\ ~use_cloud /\ stackOp.command = "power_on"
    /\ stackOp.repeat /\ stackOp.result = "success" /\ stackOp.statusOk
    /\ devices[BleMac].power = "on"


----------------------------------------------------------------------------
(* Claims about the readers of the Registry, checked under SpecReaders *)

\* C30: mutating a record that get_device, get_devices or
\* get_devices_by_type returned never changes the Registry.
C30_ReadersGetCopies ==
    readerOp.kind = "mutate" => devices = readerOp.before


----------------------------------------------------------------------------
(* Claims about the operations of the coordinator, checked under SpecRegistry *)

ReaderKinds == {"get_device", "get_devices", "get_devices_by_type"}

\* C31: a step of get_device, get_devices or get_devices_by_type issues no
\* transport call and leaves the Registry as it was, and every step that
\* changes the Registry ran the refresh (_async_update_data).
C31_ReadsAreFrameOnly ==
    [][/\ readerOp'.kind \in ReaderKinds =>
             readerOp'.io = 0 /\ ~readerOp'.refreshed /\ devices' = devices
       /\ devices' # devices => readerOp'.refreshed]_vars

\* C31 witness: get_device was asked for an id the Registry does not hold,
\* while the Registry holds another record, and the Registry is as before.
C31_Witness ==
    /\ readerOp.kind = "get_device"
    /\ held.id \notin DOMAIN readerOp.before
    /\ readerOp.before # EmptyRegistry
    /\ devices = readerOp.before


----------------------------------------------------------------------------
(* Claims about the notifications of the BLE client, checked under SpecNotify *)

----------------------------------------------------------------------------
(* Claims about the device scanners, checked under SpecScan *)

\* C33: a scan that succeeded returned exactly the devices of its own report
\* whose lower-cased name contains "mars", each once, in the order reported.
C33_ScanReturnsItsOwnMatches ==
    scanOp.ok => scanOp.returned = Matching(scanOp.report, 1)


----------------------------------------------------------------------------
(* Claims about the BLE links of one MarsProAPI, checked under SpecApiBle *)

\* the BleakClient objects whose link is open
OpenLinks == {c \in 1..MaxBleak : isConnected[c]}

\* every BleakClient made so far was made by the data call a caller ran last,
\* which found the API not connected when it started
OnlyConnectsFromDisconnected ==
    /\ nextBleak = Cardinality(Callers)
    /\ \A t \in Callers :
          /\ task[t].op \in {"get_devices", "get_device_status", "send_command"}
          /\ task[t].io # << >>
          /\ Head(task[t].io) = "connect"

\* C34: when every connect was issued by an operation that started while the
\* API was disconnected, at most one link is open, and it is the link of the
\* BleakClient self.ble_client refers to.
C34_NoLeakedLink ==
    OnlyConnectsFromDisconnected =>
        /\ Cardinality(OpenLinks) <= 1
        /\ OpenLinks \subseteq {ble_client}


----------------------------------------------------------------------------
(* Claims about the transport calls of a refresh, checked under SpecCoord *)

\* the get_devices and get_device_status calls of the running or last operation
RefreshCalls ==
    SelectSeq(lastOp.calls, LAMBDA c : c.call \in {"get_devices", "get_device_status"})

RECURSIVE StatusCallsOf(_, _, _)
\* one get_device_status call for every entry of listing[i..n] that has a
\* non-empty id, in list order
StatusCallsOf(listing, i, n) ==
    IF i > n THEN << >>
    ELSE (IF Truthy(Get(listing[i], "id"))
          THEN <<Call("get_device_status", Get(listing[i], "id"))>> ELSE << >>)
           \o StatusCallsOf(listing, i + 1, n)

\* the non-empty ids of a listing
NonEmptyIds(listing) ==
    {Get(listing[i], "id") : i \in {j \in 1..Len(listing) : Truthy(Get(listing[j], "id"))}}

\* C35: a refresh calls get_devices once and then get_device_status once per
\* listed device with a non-empty id, in list order; the loop stands at most
\* one past the end of the listing, having made the calls of the entries
\* before its position; a refresh whose listing failed made the one call;
\* and after a successful refresh the Registry's keys are the listed
\* non-empty ids.
C35_OneCallPerListedId ==
    /\ pc = "loop" =>
          /\ idx \in 1..(Len(lastOp.listing) + 1)
          /\ RefreshCalls = <<Call("get_devices", "")>>
                              \o StatusCallsOf(lastOp.listing, 1, idx - 1)
    /\ lastOp.refresh = UpdateResult(TRUE) =>
          /\ RefreshCalls = <<Call("get_devices", "")>>
                              \o StatusCallsOf(lastOp.listing, 1, Len(lastOp.listing))
          /\ DOMAIN devices = NonEmptyIds(lastOp.listing)
    /\ lastOp.refresh = UpdateResult(FALSE) =>
          RefreshCalls = <<Call("get_devices", "")>>

\* C35 witness: a refresh succeeded on a listing of a device without id and a
\* device with an id whose status read failed and which the Registry did not
\* hold before.
C35_Witness ==
    /\ lastOp.refresh = UpdateResult(TRUE)
    /\ Len(lastOp.listing) = 2
    /\ Get(lastOp.listing[1], "id") = ""
    /\ Get(lastOp.listing[2], "id") = "A"
    /\ ~lastOp.outcomes[2].ok
    /\ "A" \notin DOMAIN prevDevices
    /\ DOMAIN devices = {"A"}


----------------------------------------------------------------------------
(* Claims about the config flow and the entry setup, checked under SpecFlow *)

\* C36: an entry is created, and a setup goes on past its connection test,
\* only when test_connection returned True.
C36_EntryOnlyAfterGoodTest ==
    /\ (flowOp.kind = "user" /\ flowOp.result = "create_entry") => flowOp.test = "True"
    /\ (flowOp.kind = "setup" /\ flowOp.result # "ConfigEntryNotReady") =>
          flowOp.test = "True"


----------------------------------------------------------------------------
(* Claims about the handles the BLE client caches, checked under SpecBle *)

\* C37: after a connect() that returned True the cached characteristics are
\* exactly the ones that connect discovered.
C37_HandlesAreThoseDiscovered ==
    (bleOp.op = "connect" /\ bleOp.result = "True") => characteristics = bleOp.found


----------------------------------------------------------------------------
(* Claims about control_climate, checked under SpecBle.  control_climate     *)
(* calls send_command(CMD_SET_TEMPERATURE, data) with the data holding the   *)
(* setpoints that were not None.                                             *)

\* the bytes occur in the packet, one after the other
Carries(packet, bytes) ==
    \E i \in 0..(Len(packet) - Len(bytes)) :
        \A j \in 1..Len(bytes) : packet[i + j] = bytes[j]

\* C38: the frame control_climate writes carries no temperature value (not
\* the default 0.0 either) when no temperature was supplied, and carries the
\* humidity and the fan speed that were supplied.
C38_OnlySuppliedSetpoints ==
    ( /\ bleOp.op = "send_command"
      /\ bleOp.cmd.type = CMD_SET_TEMPERATURE
      /\ bleOp.io = <<"write:ok">> ) =>
        /\ bleOp.cmd.temperature = Missing =>
              ~Carries(bleOp.packet, PackFloat(0))
        /\ bleOp.cmd.humidity # Missing =>
              Carries(bleOp.packet, PackFloat(bleOp.cmd.humidity))
        /\ bleOp.cmd.fan_speed # Missing =>
              Carries(Tail(bleOp.packet), <<bleOp.cmd.fan_speed>>)


----------------------------------------------------------------------------
(* Claims about the bearer token of cloud requests, checked under SpecApiCloud *)

\* C39: every request of the last call other than the login carries a
\* non-empty token.
C39_RequestsCarryToken ==
    \A i \in 1..Len(cloudOp.requests) :
        cloudOp.requests[i].endpoint # "login" => Truthy(cloudOp.requests[i].token)

\* C39 witness: a data call that started with a session but no token (a login
\* answered 200 without a token had left auth_token unset) logged in and then
\* sent its request.
C39_Witness ==
    /\ cloudOp.kind \in DataCalls
    /\ ~cloudOp.first
    /\ cloudOp.sessionBefore = "session"
    /\ cloudOp.tokenBefore = None
    /\ Len(cloudOp.requests) = 2
    /\ cloudOp.requests[2].endpoint # "login"

=============================================================================
